---- MODULE Spec2Model ----
(***************************************************************************)
(* A model of the four-stage UX feedback pipeline: the perception,         *)
(* evaluation, feedback and regeneration agents, their response parsing    *)
(* and the severity-weighted score.                                        *)
(*                                                                         *)
(* Numbers are fixed-point integers counting hundredths (10.0 is 1000,     *)
(* 0.3 is 30), so that rounding to one decimal place is a real operation.  *)
(* Python's binary floating point differs from these exact values by less  *)
(* than 1e-13 on every sum that stays below the clamp, which round(x, 1)   *)
(* absorbs.                                                                *)
(***************************************************************************)
EXTENDS Integers, Sequences, FiniteSets, TLC

VARIABLES
    violations,       \* the list handed to _calculate_score
    score,            \* outcome of the last _calculate_score call
    prevViolations,   \* the list of the call before the last one
    prevScore,        \* outcome of the call before the last one
    parts,            \* how the response text under parse was put together
    response_text,    \* the response text handed to the parse routines
    parsedV,          \* what VisionAgent._parse_response returned
    parsedH,          \* what HeuristicAgent._parse_evaluation_response returned
    parsedF,          \* what FeedbackAgent._parse_feedback_response returned
    cleanedOnce,      \* the text the stripping step made of response_text
    cleanedTwice,     \* the text the stripping step made of that text
    extracted_html,   \* what WireframeAgent._extract_html returned
    report_input,     \* the feedback result handed to generate_developer_report
    report,           \* outcome of generate_developer_report
    pc,               \* the statement of test_complete_pipeline that runs next
    config,           \* the environment: the credential and the rubric file
    vision_result,    \* what analyze_screenshot returned
    evaluation_result,\* what evaluate returned
    feedback_result,  \* what generate_feedback returned
    wireframe_result, \* what generate_wireframe returned
    ran,              \* per stage that has run: its reply, path and call
    clock,            \* the last reading of the wall clock, in seconds
    files,            \* data/outputs: the content of each file by its path
    runs              \* the generate_wireframe calls so far, in order

scoreVars == <<violations, score, prevViolations, prevScore>>
parseVars == <<parts, response_text, parsedV, parsedH, parsedF, cleanedOnce,
               cleanedTwice, extracted_html>>
pipeVars == <<pc, config, vision_result, evaluation_result,
              feedback_result, wireframe_result, ran>>
reportVars == <<report_input, report>>
diskVars == <<clock, files, runs>>
vars == <<scoreVars, parseVars, pipeVars, reportVars, diskVars>>

----------------------------------------------------------------------------
(* Bounds of the model *)

MaxViolations == 4
MaxPad == 1
MaxSecond == 2
MaxItems == 3
MaxRuns == 3

----------------------------------------------------------------------------
(* Python values as decoded from JSON: a tag and a payload *)

JNull == [t |-> "null", v |-> 0]
JNum(n) == [t |-> "num", v |-> n]
JStr(s) == [t |-> "str", v |-> s]
JArr(a) == [t |-> "arr", v |-> a]
JObj(f) == [t |-> "obj", v |-> f]

EmptyDict == JObj(<<>>)
EmptyList == JArr(<<>>)

\* dict.get(key, default)
Get(d, key, default) == IF key \in DOMAIN d.v THEN d.v[key] ELSE default

\* Python truth value testing: `not x`
Falsy(x) ==
    \/ x.t = "null"
    \/ x.t = "num" /\ x.v = 0
    \/ x.t = "str" /\ x.v = ""
    \/ x.t = "arr" /\ x.v = <<>>
    \/ x.t = "obj" /\ DOMAIN x.v = {}

\* The outcome of a call: a returned value, or a raised exception
Returned(x) == [exc |-> "", val |-> x]
Raised(name) == [exc |-> name, val |-> 0]
Pending == [exc |-> "pending", val |-> 0]

\* a result variable of the pipeline before its stage has run
Unset == [t |-> "unset", v |-> 0]

\* the variables of a part of the program that is not running
PipeIdle ==
    /\ pc = "idle"
    /\ config = <<>>
    /\ vision_result = Unset
    /\ evaluation_result = Unset
    /\ feedback_result = Unset
    /\ wireframe_result = Unset
    /\ ran = <<>>

DiskIdle ==
    /\ clock = 0
    /\ files = <<>>
    /\ runs = <<>>

ScoreIdle ==
    /\ violations = <<>>
    /\ score = Pending
    /\ prevViolations = <<>>
    /\ prevScore = Pending

ReportIdle ==
    /\ report_input = Unset
    /\ report = Pending

ParseIdle ==
    /\ parts = <<>>
    /\ response_text = <<>>
    /\ parsedV = Pending
    /\ parsedH = Pending
    /\ parsedF = Pending
    /\ cleanedOnce = Pending
    /\ cleanedTwice = Pending
    /\ extracted_html = Pending

----------------------------------------------------------------------------
(* HeuristicAgent._calculate_score *)

\* severity_impact.get(severity, 0), in hundredths
severity_impact_low_as_half(severity) ==
    IF severity.t # "str" THEN 0
    ELSE CASE severity.v = "critical" -> 1000
           [] severity.v = "high" -> 300
           [] severity.v = "medium" -> 100
           [] severity.v = "low" -> 50
           [] OTHER -> 0

severity_impact(severity) ==
    IF severity.t # "str" THEN 0
    ELSE CASE severity.v = "critical" -> 1000
           [] severity.v = "high" -> 300
           [] severity.v = "medium" -> 100
           [] severity.v = "low" -> 30
           [] OTHER -> 0

\* violation.get('severity', 'low')
violation_severity_default_none(violation) == Get(violation, "severity", JNull)

violation_severity(violation) == Get(violation, "severity", JStr("low"))

\* the same loop with `=` written for `+=`
RECURSIVE deduction_loop_assign(_, _, _)
deduction_loop_assign(vs, i, total) ==
    IF i > Len(vs) THEN Returned(total)
    ELSE IF vs[i].t # "obj" THEN Raised("AttributeError")
    ELSE LET severity == violation_severity(vs[i]) IN
         IF severity.t \in {"arr", "obj"} THEN Raised("TypeError")
         ELSE deduction_loop_assign(vs, i + 1, severity_impact(severity))

\* the loop `for violation in violations: total_deduction += ...`
RECURSIVE deduction_loop(_, _, _)
deduction_loop(vs, i, total) ==
    IF i > Len(vs) THEN Returned(total)
    ELSE IF vs[i].t # "obj" THEN Raised("AttributeError")
    ELSE LET severity == violation_severity(vs[i]) IN
         IF severity.t \in {"arr", "obj"} THEN Raised("TypeError")
         ELSE deduction_loop(vs, i + 1, total + severity_impact(severity))

total_deduction(vs) == deduction_loop(vs, 1, 0)

Min(a, b) == IF a < b THEN a ELSE b
Max(a, b) == IF a > b THEN a ELSE b

\* round(x, 1): to the nearest tenth, ties to the even tenth
Round1(x) ==
    LET q == x \div 10
        r == x % 10
    IN  IF r < 5 THEN q * 10
        ELSE IF r > 5 THEN (q + 1) * 10
        ELSE IF q % 2 = 0 THEN q * 10 ELSE (q + 1) * 10

\* _calculate_score without the cap on the deduction and the floor at 0
calculate_score_unclamped(vs) ==
    IF Falsy(vs) THEN Returned(1000)
    ELSE IF vs.t = "num" THEN Raised("TypeError")
    ELSE IF vs.t # "arr" THEN Raised("AttributeError")
    ELSE LET d == total_deduction(vs.v) IN
         IF d.exc # "" THEN d
         ELSE Returned(Round1(1000 - d.val))

\* _calculate_score that takes a value that is not a list for no violations
calculate_score_lenient(vs) ==
    IF Falsy(vs) \/ vs.t # "arr" THEN Returned(1000)
    ELSE LET d == total_deduction(vs.v) IN
         IF d.exc # "" THEN d
         ELSE Returned(Max(0, Round1(1000 - Min(d.val, 1000))))

calculate_score(vs) ==
    IF Falsy(vs) THEN Returned(1000)
    ELSE IF vs.t = "num" THEN Raised("TypeError")
    ELSE IF vs.t # "arr" THEN Raised("AttributeError")
    ELSE LET d == total_deduction(vs.v) IN
         IF d.exc # "" THEN d
         ELSE Returned(Max(0, Round1(1000 - Min(d.val, 1000))))

----------------------------------------------------------------------------
(* Response texts.  A text is a sequence of characters; a JSON string      *)
(* literal, a JSON number and the word null are each one character of the  *)
(* alphabet, every other character stands for itself.                      *)

Whitespace == {" ", "\n"}

\* the string literals of the alphabet and the strings they denote
StringLit ==
    ("\"violations\"" :> "violations") @@ ("\"severity\"" :> "severity")
    @@ ("\"overall_score\"" :> "overall_score")
    @@ ("\"feedback_items\"" :> "feedback_items")
    @@ ("\"total_feedback_items\"" :> "total_feedback_items")
    @@ ("\"priority\"" :> "priority") @@ ("\"platform\"" :> "platform")
    @@ ("\"components\"" :> "components") @@ ("\"screen_type\"" :> "screen_type")
    @@ ("\"error\"" :> "error") @@ ("\"critical\"" :> "critical")
    @@ ("\"high\"" :> "high") @@ ("\"medium\"" :> "medium") @@ ("\"low\"" :> "low")
    @@ ("\"urgent\"" :> "urgent") @@ ("\"login\"" :> "login") @@ ("\"x\"" :> "x")
    @@ ("\"issue\"" :> "issue") @@ ("\"web\"" :> "web")
    @@ ("\"summary\"" :> "summary")

\* the number literals of the alphabet and their values, in hundredths
NumberLit == ("7" :> 700) @@ ("0" :> 0)

\* the backquote character, which a string of this language cannot hold
BQ == "bq"

Fence == <<BQ, BQ, BQ>>
FenceJson == <<BQ, BQ, BQ, "j", "s", "o", "n">>

\* str.startswith, str.endswith
StartsWith(s, prefix) ==
    Len(s) >= Len(prefix) /\ SubSeq(s, 1, Len(prefix)) = prefix
EndsWith(s, suffix) ==
    Len(s) >= Len(suffix) /\ SubSeq(s, Len(s) - Len(suffix) + 1, Len(s)) = suffix

\* s[n:] and s[:-n]
DropFirst(s, n) == SubSeq(s, Min(n, Len(s)) + 1, Len(s))
DropLast(s, n) == SubSeq(s, 1, Max(Len(s) - n, 0))

RECURSIVE LStrip(_)
LStrip(s) ==
    IF s # <<>> /\ s[1] \in Whitespace THEN LStrip(Tail(s)) ELSE s

RECURSIVE RStrip(_)
RStrip(s) ==
    IF s # <<>> /\ s[Len(s)] \in Whitespace THEN RStrip(DropLast(s, 1)) ELSE s

\* str.strip()
Strip(s) == RStrip(LStrip(s))

----------------------------------------------------------------------------
(* json.loads *)

RECURSIVE SkipWs(_, _)
SkipWs(s, i) ==
    IF i <= Len(s) /\ s[i] \in Whitespace THEN SkipWs(s, i + 1) ELSE i

NoParse == [ok |-> FALSE, val |-> JNull, pos |-> 0]
Parsed(x, next) == [ok |-> TRUE, val |-> x, pos |-> next]

\* dict[key] = value
SetItem(d, key, value) ==
    [k \in DOMAIN d \cup {key} |-> IF k = key THEN value ELSE d[k]]

RECURSIVE ParseValue(_, _)
RECURSIVE ParseElements(_, _, _)
RECURSIVE ParseMembers(_, _, _)

\* one JSON value starting at or after position i0
ParseValue(s, i0) ==
    LET i == SkipWs(s, i0) IN
    IF i > Len(s) THEN NoParse
    ELSE IF s[i] \in DOMAIN StringLit THEN Parsed(JStr(StringLit[s[i]]), i + 1)
    ELSE IF s[i] \in DOMAIN NumberLit THEN Parsed(JNum(NumberLit[s[i]]), i + 1)
    ELSE IF s[i] = "null" THEN Parsed(JNull, i + 1)
    ELSE IF s[i] = "[" THEN
        LET j == SkipWs(s, i + 1) IN
        IF j <= Len(s) /\ s[j] = "]" THEN Parsed(JArr(<<>>), j + 1)
        ELSE ParseElements(s, i + 1, <<>>)
    ELSE IF s[i] = "{" THEN
        LET j == SkipWs(s, i + 1) IN
        IF j <= Len(s) /\ s[j] = "}" THEN Parsed(JObj(<<>>), j + 1)
        ELSE ParseMembers(s, i + 1, <<>>)
    ELSE NoParse

\* the elements of an array after its opening bracket or a comma
ParseElements(s, i, acc) ==
    LET r == ParseValue(s, i) IN
    IF ~r.ok THEN NoParse
    ELSE LET j == SkipWs(s, r.pos) IN
         IF j > Len(s) THEN NoParse
         ELSE IF s[j] = "," THEN ParseElements(s, j + 1, Append(acc, r.val))
         ELSE IF s[j] = "]" THEN Parsed(JArr(Append(acc, r.val)), j + 1)
         ELSE NoParse

\* the members of an object after its opening brace or a comma
ParseMembers(s, i, acc) ==
    LET k == SkipWs(s, i) IN
    IF k > Len(s) \/ s[k] \notin DOMAIN StringLit THEN NoParse
    ELSE LET c == SkipWs(s, k + 1) IN
         IF c > Len(s) \/ s[c] # ":" THEN NoParse
         ELSE LET r == ParseValue(s, c + 1) IN
              IF ~r.ok THEN NoParse
              ELSE LET j == SkipWs(s, r.pos)
                       d == SetItem(acc, StringLit[s[k]], r.val)
                   IN  IF j > Len(s) THEN NoParse
                       ELSE IF s[j] = "," THEN ParseMembers(s, j + 1, d)
                       ELSE IF s[j] = "}" THEN Parsed(JObj(d), j + 1)
                       ELSE NoParse

\* json.loads(s): the decoded value, or JSONDecodeError
json_loads(s) ==
    LET r == ParseValue(s, 1) IN
    IF ~r.ok THEN Raised("JSONDecodeError")
    ELSE IF SkipWs(s, r.pos) <= Len(s) THEN Raised("JSONDecodeError")
    ELSE Returned(r.val)

\* a Python str held as a text
JText(s) == [t |-> "text", v |-> s]

----------------------------------------------------------------------------
(* The three parse routines *)

\* the cleaning without its last strip()
clean_response_no_final_strip(text) ==
    LET stripped == Strip(text)
        opened == IF StartsWith(stripped, FenceJson) THEN DropFirst(stripped, 7)
                  ELSE IF StartsWith(stripped, Fence) THEN DropFirst(stripped, 3)
                  ELSE stripped
    IN  IF EndsWith(opened, Fence) THEN DropLast(opened, 3) ELSE opened

\* VisionAgent._parse_response, up to the json.loads call
clean_response(text) ==
    LET stripped == Strip(text)
        opened == IF StartsWith(stripped, FenceJson) THEN DropFirst(stripped, 7)
                  ELSE IF StartsWith(stripped, Fence) THEN DropFirst(stripped, 3)
                  ELSE stripped
        closed == IF EndsWith(opened, Fence) THEN DropLast(opened, 3) ELSE opened
    IN  Strip(closed)

\* VisionAgent._parse_response
parse_response(text) ==
    LET r == json_loads(clean_response(text)) IN
    IF r.exc = "" THEN r.val
    ELSE JObj(("raw_response" :> JText(text)) @@ ("parse_error" :> JStr(r.exc)))

\* HeuristicAgent._parse_evaluation_response, up to the json.loads call
clean_evaluation_response(text) ==
    LET stripped == Strip(text)
        opened == IF StartsWith(stripped, FenceJson) THEN DropFirst(stripped, 7)
                  ELSE IF StartsWith(stripped, Fence) THEN DropFirst(stripped, 3)
                  ELSE stripped
        closed == IF EndsWith(opened, Fence) THEN DropLast(opened, 3) ELSE opened
    IN  Strip(closed)

\* HeuristicAgent._parse_evaluation_response
parse_evaluation_response(text) ==
    LET r == json_loads(clean_evaluation_response(text)) IN
    IF r.exc = "" THEN r.val
    ELSE JObj(("raw_response" :> JText(text)) @@ ("parse_error" :> JStr(r.exc))
              @@ ("violations" :> JArr(<<>>)))

\* the cleaning with the test for the bare fence placed first
clean_feedback_response_bare_first(text) ==
    LET stripped == Strip(text)
        opened == IF StartsWith(stripped, Fence) THEN DropFirst(stripped, 3)
                  ELSE IF StartsWith(stripped, FenceJson) THEN DropFirst(stripped, 7)
                  ELSE stripped
        closed == IF EndsWith(opened, Fence) THEN DropLast(opened, 3) ELSE opened
    IN  Strip(closed)

\* FeedbackAgent._parse_feedback_response, up to the json.loads call
clean_feedback_response(text) ==
    LET stripped == Strip(text)
        opened == IF StartsWith(stripped, FenceJson) THEN DropFirst(stripped, 7)
                  ELSE IF StartsWith(stripped, Fence) THEN DropFirst(stripped, 3)
                  ELSE stripped
        closed == IF EndsWith(opened, Fence) THEN DropLast(opened, 3) ELSE opened
    IN  Strip(closed)

\* the parse routine with the fallback of the perception stage, which
\* substitutes no feedback_items
parse_feedback_response_bare_fallback(text) ==
    LET r == json_loads(clean_feedback_response(text)) IN
    IF r.exc = "" THEN r.val
    ELSE JObj(("raw_response" :> JText(text)) @@ ("parse_error" :> JStr(r.exc)))

\* FeedbackAgent._parse_feedback_response
parse_feedback_response(text) ==
    LET r == json_loads(clean_feedback_response(text)) IN
    IF r.exc = "" THEN r.val
    ELSE JObj(("raw_response" :> JText(text)) @@ ("parse_error" :> JStr(r.exc))
              @@ ("feedback_items" :> JArr(<<>>)))

----------------------------------------------------------------------------
(* The stage entry points.  A stage reports the mapping it returned, the   *)
(* return statement that produced it (path: "ok" after a decoded response, *)
(* "parse_error" after the parse fallback, "error" from the except clause) *)
(* and whether it issued its external call.                                *)

StageReturn(value, path, called) ==
    [result |-> value, path |-> path, called |-> called,
     calls |-> IF called THEN 1 ELSE 0]

\* return {"error": str(e)}
ErrorResult(e) == JObj("error" :> JStr(e))

\* len(s) of the strings the string literals denote
StrLen ==
    ("violations" :> 10) @@ ("severity" :> 8) @@ ("overall_score" :> 13)
    @@ ("feedback_items" :> 14) @@ ("total_feedback_items" :> 20)
    @@ ("priority" :> 8) @@ ("platform" :> 8) @@ ("components" :> 10)
    @@ ("screen_type" :> 11) @@ ("error" :> 5) @@ ("critical" :> 8)
    @@ ("high" :> 4) @@ ("medium" :> 6) @@ ("low" :> 3) @@ ("urgent" :> 6)
    @@ ("login" :> 5) @@ ("x" :> 1) @@ ("issue" :> 5) @@ ("web" :> 3)
    @@ ("summary" :> 7)

\* len(x) of a decoded value
PyLen(x) ==
    IF x.t = "arr" THEN Returned(Len(x.v))
    ELSE IF x.t = "str" THEN Returned(StrLen[x.v])
    ELSE IF x.t = "obj" THEN Returned(Cardinality(DOMAIN x.v))
    ELSE Raised("TypeError")

\* VisionAgent.analyze_screenshot: image_ok says whether open(image_path)
\* succeeds, reply is what generate_content does
analyze_screenshot(image_ok, reply) ==
    IF ~image_ok THEN StageReturn(ErrorResult("FileNotFoundError"), "error", FALSE)
    ELSE IF reply.kind = "raise" THEN StageReturn(ErrorResult(reply.exc), "error", TRUE)
    ELSE LET result == parse_response(reply.text) IN
         StageReturn(result,
                     IF json_loads(clean_response(reply.text)).exc = ""
                     THEN "ok" ELSE "parse_error",
                     TRUE)

\* _create_evaluation_prompt reading components by subscript
create_evaluation_prompt_subscript(vision_analysis) ==
    IF vision_analysis.t # "obj" THEN Raised("AttributeError")
    ELSE IF "components" \notin DOMAIN vision_analysis.v THEN Raised("KeyError")
    ELSE LET components == vision_analysis.v["components"]
             n == PyLen(components)
         IN  IF n.exc # "" THEN n
             ELSE Returned([screen_type |-> Get(vision_analysis, "screen_type", JStr("unknown")),
                            n_components |-> n.val,
                            components |-> components,
                            color_scheme |-> Get(vision_analysis, "color_scheme", EmptyDict),
                            spacing |-> Get(vision_analysis, "spacing_and_density", EmptyDict),
                            accessibility_obs |->
                                Get(vision_analysis, "accessibility_observations", EmptyList)])

\* HeuristicAgent._create_evaluation_prompt: the values the prompt is built
\* from, or the exception the building raises
create_evaluation_prompt(vision_analysis) ==
    IF vision_analysis.t # "obj" THEN Raised("AttributeError")
    ELSE LET components == Get(vision_analysis, "components", EmptyList)
             n == PyLen(components)
         IN  IF n.exc # "" THEN n
             ELSE Returned([screen_type |-> Get(vision_analysis, "screen_type", JStr("unknown")),
                            n_components |-> n.val,
                            components |-> components,
                            color_scheme |-> Get(vision_analysis, "color_scheme", EmptyDict),
                            spacing |-> Get(vision_analysis, "spacing_and_density", EmptyDict),
                            accessibility_obs |->
                                Get(vision_analysis, "accessibility_observations", EmptyList)])

\* evaluate with the score of the response kept when it gives one
evaluate_keeps_reply_score(vision_analysis, reply) ==
    LET prompt == create_evaluation_prompt(vision_analysis) IN
    IF prompt.exc # "" THEN StageReturn(ErrorResult(prompt.exc), "error", FALSE)
    ELSE IF reply.kind = "raise" THEN StageReturn(ErrorResult(reply.exc), "error", TRUE)
    ELSE LET result == parse_evaluation_response(reply.text)
             path == IF json_loads(clean_evaluation_response(reply.text)).exc = ""
                     THEN "ok" ELSE "parse_error"
         IN  IF result.t # "obj"
             THEN StageReturn(ErrorResult("AttributeError"), "error", TRUE)
             ELSE LET sc == calculate_score(Get(result, "violations", EmptyList)) IN
                  IF sc.exc # "" THEN StageReturn(ErrorResult(sc.exc), "error", TRUE)
                  ELSE IF "overall_score" \in DOMAIN result.v
                  THEN StageReturn(result, path, TRUE)
                  ELSE StageReturn(JObj(SetItem(result.v, "overall_score", JNum(sc.val))),
                                   path, TRUE)

\* evaluate that gives up, without a request, on a failed perception
evaluate_short_circuit(vision_analysis, reply) ==
    LET prompt == create_evaluation_prompt(vision_analysis) IN
    IF prompt.exc # "" THEN StageReturn(ErrorResult(prompt.exc), "error", FALSE)
    ELSE IF "error" \in DOMAIN vision_analysis.v
    THEN StageReturn(ErrorResult("upstream"), "error", FALSE)
    ELSE IF reply.kind = "raise" THEN StageReturn(ErrorResult(reply.exc), "error", TRUE)
    ELSE LET result == parse_evaluation_response(reply.text)
             path == IF json_loads(clean_evaluation_response(reply.text)).exc = ""
                     THEN "ok" ELSE "parse_error"
         IN  IF result.t # "obj"
             THEN StageReturn(ErrorResult("AttributeError"), "error", TRUE)
             ELSE LET sc == calculate_score(Get(result, "violations", EmptyList)) IN
                  IF sc.exc # "" THEN StageReturn(ErrorResult(sc.exc), "error", TRUE)
                  ELSE StageReturn(JObj(SetItem(result.v, "overall_score", JNum(sc.val))),
                                   path, TRUE)

\* evaluate with a second request after a failed one
evaluate_retrying(vision_analysis, reply) ==
    LET prompt == create_evaluation_prompt(vision_analysis) IN
    IF prompt.exc # "" THEN StageReturn(ErrorResult(prompt.exc), "error", FALSE)
    ELSE IF reply.kind = "raise"
    THEN [result |-> JObj(("violations" :> EmptyList) @@ ("overall_score" :> JNum(1000))),
          path |-> "ok", called |-> TRUE, calls |-> 2]
    ELSE LET result == parse_evaluation_response(reply.text)
             path == IF json_loads(clean_evaluation_response(reply.text)).exc = ""
                     THEN "ok" ELSE "parse_error"
         IN  IF result.t # "obj"
             THEN StageReturn(ErrorResult("AttributeError"), "error", TRUE)
             ELSE LET sc == calculate_score(Get(result, "violations", EmptyList)) IN
                  IF sc.exc # "" THEN StageReturn(ErrorResult(sc.exc), "error", TRUE)
                  ELSE StageReturn(JObj(SetItem(result.v, "overall_score", JNum(sc.val))),
                                   path, TRUE)

\* evaluate with the parse fallback returned before the score is added
evaluate_bare_fallback(vision_analysis, reply) ==
    LET prompt == create_evaluation_prompt(vision_analysis) IN
    IF prompt.exc # "" THEN StageReturn(ErrorResult(prompt.exc), "error", FALSE)
    ELSE IF reply.kind = "raise" THEN StageReturn(ErrorResult(reply.exc), "error", TRUE)
    ELSE LET result == parse_evaluation_response(reply.text)
             path == IF json_loads(clean_evaluation_response(reply.text)).exc = ""
                     THEN "ok" ELSE "parse_error"
         IN  IF result.t # "obj"
             THEN StageReturn(ErrorResult("AttributeError"), "error", TRUE)
             ELSE IF path = "parse_error" THEN StageReturn(result, path, TRUE)
             ELSE LET sc == calculate_score(Get(result, "violations", EmptyList)) IN
                  IF sc.exc # "" THEN StageReturn(ErrorResult(sc.exc), "error", TRUE)
                  ELSE StageReturn(JObj(SetItem(result.v, "overall_score", JNum(sc.val))),
                                   path, TRUE)

\* HeuristicAgent.evaluate
evaluate(vision_analysis, reply) ==
    LET prompt == create_evaluation_prompt(vision_analysis) IN
    IF prompt.exc # "" THEN StageReturn(ErrorResult(prompt.exc), "error", FALSE)
    ELSE IF reply.kind = "raise" THEN StageReturn(ErrorResult(reply.exc), "error", TRUE)
    ELSE LET result == parse_evaluation_response(reply.text)
             path == IF json_loads(clean_evaluation_response(reply.text)).exc = ""
                     THEN "ok" ELSE "parse_error"
         IN  IF result.t # "obj"
             THEN StageReturn(ErrorResult("AttributeError"), "error", TRUE)
             ELSE LET sc == calculate_score(Get(result, "violations", EmptyList)) IN
                  IF sc.exc # "" THEN StageReturn(ErrorResult(sc.exc), "error", TRUE)
                  ELSE StageReturn(JObj(SetItem(result.v, "overall_score", JNum(sc.val))),
                                   path, TRUE)

\* platform: str = "android"
DefaultPlatform == "android"

\* FeedbackAgent._create_feedback_prompt
create_feedback_prompt(vision_analysis, heuristic_evaluation, platform) ==
    IF heuristic_evaluation.t # "obj" THEN Raised("AttributeError")
    ELSE IF vision_analysis.t # "obj" THEN Raised("AttributeError")
    ELSE LET components == Get(vision_analysis, "components", EmptyList)
             n == PyLen(components)
         IN  IF n.exc # "" THEN n
             ELSE Returned([platform |-> platform,
                            screen_type |-> Get(vision_analysis, "screen_type", JStr("unknown")),
                            n_components |-> n.val,
                            violations |-> Get(heuristic_evaluation, "violations", EmptyList),
                            mobile_issues |->
                                Get(heuristic_evaluation, "mobile_specific_issues", EmptyList)])

\* generate_feedback with the count of the response kept when it gives one
generate_feedback_keeps_reply_count(vision_analysis, heuristic_evaluation, platform, reply) ==
    LET prompt == create_feedback_prompt(vision_analysis, heuristic_evaluation, platform) IN
    IF prompt.exc # "" THEN StageReturn(ErrorResult(prompt.exc), "error", FALSE)
    ELSE IF reply.kind = "raise" THEN StageReturn(ErrorResult(reply.exc), "error", TRUE)
    ELSE LET result == parse_feedback_response(reply.text)
             path == IF json_loads(clean_feedback_response(reply.text)).exc = ""
                     THEN "ok" ELSE "parse_error"
         IN  IF result.t # "obj"
             THEN StageReturn(ErrorResult("TypeError"), "error", TRUE)
             ELSE LET stamped == SetItem(result.v, "platform", JStr(platform))
                      n == PyLen(Get(result, "feedback_items", EmptyList))
                  IN  IF n.exc # "" THEN StageReturn(ErrorResult(n.exc), "error", TRUE)
                      ELSE IF "total_feedback_items" \in DOMAIN result.v
                      THEN StageReturn(JObj(stamped), path, TRUE)
                      ELSE StageReturn(
                               JObj(SetItem(stamped, "total_feedback_items",
                                            JNum(100 * n.val))),
                               path, TRUE)

\* FeedbackAgent.generate_feedback
generate_feedback(vision_analysis, heuristic_evaluation, platform, reply) ==
    LET prompt == create_feedback_prompt(vision_analysis, heuristic_evaluation, platform) IN
    IF prompt.exc # "" THEN StageReturn(ErrorResult(prompt.exc), "error", FALSE)
    ELSE IF reply.kind = "raise" THEN StageReturn(ErrorResult(reply.exc), "error", TRUE)
    ELSE LET result == parse_feedback_response(reply.text)
             path == IF json_loads(clean_feedback_response(reply.text)).exc = ""
                     THEN "ok" ELSE "parse_error"
         IN  IF result.t # "obj"
             THEN StageReturn(ErrorResult("TypeError"), "error", TRUE)
             ELSE LET stamped == SetItem(result.v, "platform", JStr(platform))
                      n == PyLen(Get(result, "feedback_items", EmptyList))
                  IN  IF n.exc # "" THEN StageReturn(ErrorResult(n.exc), "error", TRUE)
                      ELSE StageReturn(
                               JObj(SetItem(stamped, "total_feedback_items",
                                            JNum(100 * n.val))),
                               path, TRUE)

----------------------------------------------------------------------------
(* FeedbackAgent.generate_developer_report.  The report is the list of the  *)
(* strings appended to `report`; a string is held as its kind and the two   *)
(* values formatted into it.                                                 *)

Line(kind, a, b) == [kind |-> kind, a |-> a, b |-> b]
Heading(kind) == Line(kind, JNull, JNull)

\* one block of appends after another; an exception ends the function
Then(x, y) ==
    IF x.exc # "" THEN x
    ELSE IF y.exc # "" THEN y
    ELSE Returned(x.val \o y.val)

\* x.get(key, default) of a value that need not be a dict
PyGet(x, key, default) ==
    IF x.t = "obj" THEN Returned(Get(x, key, default)) ELSE Raised("AttributeError")

\* the values `for v in x` visits
Iterate(x) ==
    CASE x.t = "arr" -> Returned(x.v)
      [] x.t = "str" -> Returned([i \in 1..StrLen[x.v] |-> JStr("x")])
      [] x.t = "obj" ->
           Returned([i \in 1..Cardinality(DOMAIN x.v) |-> JStr("x")])
      [] OTHER -> Raised("TypeError")

\* str.upper() of the four priorities
Upper ==
    ("critical" :> "CRITICAL") @@ ("high" :> "HIGH") @@ ("medium" :> "MEDIUM")
    @@ ("low" :> "LOW")

\* the summary read with summary[key] in place of summary.get(key, default)
summary_section_subscript(summary) ==
    IF summary.t # "obj" THEN Raised("TypeError")
    ELSE IF ~({"total_issues", "critical", "high", "medium", "low",
               "estimated_total_time"} \subseteq DOMAIN summary.v)
    THEN Raised("KeyError")
    ELSE Returned(<<
        Heading("title"),
        Heading("summary"),
        Line("total_issues", summary.v["total_issues"], JNull),
        Line("critical", summary.v["critical"], JNull),
        Line("high", summary.v["high"], JNull),
        Line("medium", summary.v["medium"], JNull),
        Line("low", summary.v["low"], JNull),
        Line("estimated_total_time", summary.v["estimated_total_time"], JNull) >>)

\* lines 217-226: the title and the summary counts
summary_section(summary) ==
    IF summary.t # "obj" THEN Raised("AttributeError")
    ELSE Returned(<<
        Heading("title"),
        Heading("summary"),
        Line("total_issues", Get(summary, "total_issues", JNum(0)), JNull),
        Line("critical", Get(summary, "critical", JNum(0)), JNull),
        Line("high", Get(summary, "high", JNum(0)), JNull),
        Line("medium", Get(summary, "medium", JNum(0)), JNull),
        Line("low", Get(summary, "low", JNum(0)), JNull),
        Line("estimated_total_time",
             Get(summary, "estimated_total_time", JStr("Unknown")), JNull) >>)

\* lines 232-235: for i, win in enumerate(quick_wins, 1)
RECURSIVE quick_wins_loop(_, _)
quick_wins_loop(wins, i) ==
    IF i > Len(wins) THEN Returned(<<>>)
    ELSE IF wins[i].t # "obj" THEN Raised("AttributeError")
    ELSE Then(Returned(<<
                  Line("win_change", JNum(100 * i), Get(wins[i], "change", JStr("N/A"))),
                  Line("win_impact", Get(wins[i], "impact", JStr("N/A")), JNull),
                  Line("win_effort", Get(wins[i], "effort", JStr("N/A")), JNull) >>),
              quick_wins_loop(wins, i + 1))

\* the quick wins without the test `if quick_wins`
quick_wins_section_unguarded(quick_wins) ==
    LET wins == Iterate(quick_wins) IN
    IF wins.exc # "" THEN wins
    ELSE Then(Returned(<<Heading("quick_wins"), Heading("quick_wins_intro")>>),
              quick_wins_loop(wins.val, 1))

\* lines 229-235: the quick wins
quick_wins_section(quick_wins) ==
    IF Falsy(quick_wins) THEN Returned(<<>>)
    ELSE LET wins == Iterate(quick_wins) IN
         IF wins.exc # "" THEN wins
         ELSE Then(Returned(<<Heading("quick_wins"), Heading("quick_wins_intro")>>),
                   quick_wins_loop(wins.val, 1))

\* lines 259-260: for step in item.get('what_to_do', [])
steps_lines(what_to_do) ==
    LET steps == Iterate(what_to_do) IN
    IF steps.exc # "" THEN steps
    ELSE Returned([i \in 1..Len(steps.val) |-> Line("step", steps.val[i], JNull)])

\* lines 264-269: the code example of an item
code_example_lines(code_example) ==
    IF Falsy(code_example) THEN Returned(<<>>)
    ELSE IF code_example.t # "obj" THEN Raised("AttributeError")
    ELSE Returned(<<
        Line("code_heading", Get(code_example, "language", JStr("code")), JNull),
        Line("code_open", Get(code_example, "language", JStr("kotlin")), JNull),
        Line("code", Get(code_example, "code", JStr("")), JNull),
        Heading("code_close") >>)

\* lines 251-274: one feedback item
item_lines(item) ==
    Then(Returned(<<
             Line("item_title", Get(item, "id", JStr("?")),
                  Get(item, "title", JStr("Unknown"))),
             Line("category", Get(item, "category", JStr("N/A")), JNull),
             Line("estimated_effort",
                  Get(item, "estimated_effort", JStr("Unknown")), JNull),
             Heading("why_label"),
             Line("why_it_matters", Get(item, "why_it_matters", JStr("N/A")), JNull),
             Heading("what_to_do") >>),
    Then(steps_lines(Get(item, "what_to_do", EmptyList)),
    Then(Returned(<<Heading("blank")>>),
    Then(code_example_lines(Get(item, "code_example", EmptyDict)),
         Returned(<<
             Heading("visual_label"),
             Line("wireframe_changes",
                  Get(item, "wireframe_changes", JStr("N/A")), JNull),
             Heading("rule") >>)))))

\* for priority in ['critical', 'high', 'medium', 'low'], with low first
PrioritiesLowFirst == <<"low", "critical", "high", "medium">>

\* for priority in ['critical', 'high', 'medium', 'low']
Priorities == <<"critical", "high", "medium", "low">>

\* lines 242-245: [item for item in feedback_items if item.get('priority') == priority]
RECURSIVE priority_items(_, _, _)
priority_items(items, i, priority) ==
    IF i > Len(items) THEN Returned(<<>>)
    ELSE IF items[i].t # "obj" THEN Raised("AttributeError")
    ELSE LET rest == priority_items(items, i + 1, priority) IN
         IF rest.exc # "" THEN rest
         ELSE IF Get(items[i], "priority", JNull) = JStr(priority)
         THEN Returned(<<items[i]>> \o rest.val)
         ELSE rest

\* lines 250-274: for item in priority_items
RECURSIVE items_loop(_, _)
items_loop(items, i) ==
    IF i > Len(items) THEN Returned(<<>>)
    ELSE Then(item_lines(items[i]), items_loop(items, i + 1))

\* lines 242-274: one priority bucket
bucket_lines(feedback_items, priority) ==
    LET items == Iterate(feedback_items) IN
    IF items.exc # "" THEN items
    ELSE LET chosen == priority_items(items.val, 1, priority) IN
         IF chosen.exc # "" THEN chosen
         ELSE IF chosen.val = <<>> THEN Returned(<<>>)
         ELSE Then(Returned(<<Line("bucket", JStr(Upper[priority]),
                                   JNum(100 * Len(chosen.val)))>>),
                   items_loop(chosen.val, 1))

\* lines 241-274: the buckets, one priority after another
RECURSIVE buckets_loop(_, _)
buckets_loop(feedback_items, k) ==
    IF k > Len(Priorities) THEN Returned(<<>>)
    ELSE Then(bucket_lines(feedback_items, Priorities[k]),
              buckets_loop(feedback_items, k + 1))

\* lines 238-274: the detailed feedback
detailed_section(feedback_items) ==
    Then(Returned(<<Heading("detailed")>>), buckets_loop(feedback_items, 1))

\* lines 284-303: one list of wireframe_instructions under its heading
fixes_lines(wireframe_instructions, key) ==
    LET fixes == Get(wireframe_instructions, key, EmptyList) IN
    IF Falsy(fixes) THEN Returned(<<>>)
    ELSE LET each == Iterate(fixes) IN
         IF each.exc # "" THEN each
         ELSE Returned(<<Heading(key)>>
                       \o [i \in 1..Len(each.val) |-> Line("fix", each.val[i], JNull)]
                       \o <<Heading("blank")>>)

\* the visual design changes with the layout modifications listed as well
visual_section_with_layout(wireframe_instructions) ==
    IF Falsy(wireframe_instructions) THEN Returned(<<>>)
    ELSE IF wireframe_instructions.t # "obj" THEN Raised("AttributeError")
    ELSE LET overall == Get(wireframe_instructions, "overall_changes", JStr("")) IN
         Then(Returned(<<Heading("visual")>>),
         Then(Returned(IF Falsy(overall) THEN <<>>
                       ELSE <<Line("overall_changes", overall, JNull)>>),
         Then(fixes_lines(wireframe_instructions, "priority_fixes"),
         Then(fixes_lines(wireframe_instructions, "layout_modifications"),
         Then(fixes_lines(wireframe_instructions, "color_adjustments"),
              fixes_lines(wireframe_instructions, "typography_changes"))))))

\* lines 277-303: the visual design changes
visual_section(wireframe_instructions) ==
    IF Falsy(wireframe_instructions) THEN Returned(<<>>)
    ELSE IF wireframe_instructions.t # "obj" THEN Raised("AttributeError")
    ELSE LET overall == Get(wireframe_instructions, "overall_changes", JStr("")) IN
         Then(Returned(<<Heading("visual")>>),
         Then(Returned(IF Falsy(overall) THEN <<>>
                       ELSE <<Line("overall_changes", overall, JNull)>>),
         Then(fixes_lines(wireframe_instructions, "priority_fixes"),
         Then(fixes_lines(wireframe_instructions, "color_adjustments"),
              fixes_lines(wireframe_instructions, "typography_changes")))))

\* line 305: "\n".join(report), which takes strings only; every appended
\* value is an f-string but the code of a code example
join_report(lines) ==
    IF lines.exc # "" THEN lines
    ELSE IF \E i \in 1..Len(lines.val) :
              lines.val[i].kind = "code" /\ lines.val[i].a.t # "str"
    THEN Raised("TypeError")
    ELSE lines

\* the report with the detailed feedback placed before the quick wins
generate_developer_report_detailed_first(feedback_result_) ==
    IF feedback_result_.t # "obj" THEN Raised("AttributeError")
    ELSE join_report(
        Then(summary_section(Get(feedback_result_, "summary", EmptyDict)),
        Then(detailed_section(Get(feedback_result_, "feedback_items", EmptyList)),
        Then(quick_wins_section(Get(feedback_result_, "quick_wins", EmptyList)),
             visual_section(Get(feedback_result_, "wireframe_instructions", EmptyDict))))))

\* FeedbackAgent.generate_developer_report
generate_developer_report(feedback_result_) ==
    IF feedback_result_.t # "obj" THEN Raised("AttributeError")
    ELSE join_report(
        Then(summary_section(Get(feedback_result_, "summary", EmptyDict)),
        Then(quick_wins_section(Get(feedback_result_, "quick_wins", EmptyList)),
        Then(detailed_section(Get(feedback_result_, "feedback_items", EmptyList)),
             visual_section(Get(feedback_result_, "wireframe_instructions", EmptyDict))))))

----------------------------------------------------------------------------
(* HeuristicAgent.generate_report *)

\* line 257: for severity in ['critical', 'high', 'medium', 'low']
ReportSeverities == <<"critical", "high", "medium", "low">>

\* ', '.join(x) takes an iterable of strings
JoinStrings(x) ==
    CASE x.t = "arr" ->
           IF \A i \in 1..Len(x.v) : x.v[i].t = "str" THEN Returned(x)
           ELSE Raised("TypeError")
      [] x.t \in {"str", "obj"} -> Returned(x)
      [] OTHER -> Raised("TypeError")

\* line 258: [v for v in violations if v.get('severity') == severity]
RECURSIVE severity_violations(_, _, _)
severity_violations(vs, i, severity) ==
    IF i > Len(vs) THEN Returned(<<>>)
    ELSE IF vs[i].t # "obj" THEN Raised("AttributeError")
    ELSE LET rest == severity_violations(vs, i + 1, severity) IN
         IF rest.exc # "" THEN rest
         ELSE IF Get(vs[i], "severity", JNull) = JStr(severity)
         THEN Returned(<<vs[i]>> \o rest.val)
         ELSE rest

\* lines 264-268: the lines of one violation
violation_lines(v) ==
    LET affected == JoinStrings(Get(v, "affected_components", EmptyList)) IN
    IF affected.exc # "" THEN affected
    ELSE Returned(<<Line("violation", Get(v, "heuristic_name", JStr("Unknown")),
                         Get(v, "issue", JStr("N/A"))),
                    Line("affected", affected.val, JNull),
                    Line("suggestion", Get(v, "improvement_suggestion", JStr("N/A")),
                         JNull)>>)

RECURSIVE violations_loop(_, _)
violations_loop(vs, i) ==
    IF i > Len(vs) THEN Returned(<<>>)
    ELSE Then(violation_lines(vs[i]), violations_loop(vs, i + 1))

\* lines 257-268: one severity group
severity_lines(violations_, severity) ==
    LET vs == Iterate(violations_) IN
    IF vs.exc # "" THEN vs
    ELSE LET chosen == severity_violations(vs.val, 1, severity) IN
         IF chosen.exc # "" THEN chosen
         ELSE IF chosen.val = <<>> THEN Returned(<<>>)
         ELSE Then(Returned(<<Line("severity", JStr(Upper[severity]),
                                   JNum(100 * Len(chosen.val)))>>),
                   violations_loop(chosen.val, 1))

RECURSIVE severities_loop(_, _)
severities_loop(violations_, k) ==
    IF k > Len(ReportSeverities) THEN Returned(<<>>)
    ELSE Then(severity_lines(violations_, ReportSeverities[k]),
              severities_loop(violations_, k + 1))

\* lines 251-268: the violations, under a header with len(violations)
violations_section(violations_) ==
    IF Falsy(violations_) THEN Returned(<<>>)
    ELSE LET n == PyLen(violations_) IN
         IF n.exc # "" THEN n
         ELSE Then(Returned(<<Line("violations_found", JNum(100 * n.val), JNull)>>),
                   severities_loop(violations_, 1))

RECURSIVE entries_loop(_, _, _)
entries_loop(kind, entries, i) ==
    IF i > Len(entries) THEN Returned(<<>>)
    ELSE IF entries[i].t # "obj" THEN Raised("AttributeError")
    ELSE Then(Returned(<<Line(kind, entries[i], JNull)>>),
              entries_loop(kind, entries, i + 1))

\* lines 271-291: the strengths and the mobile-specific issues, each a header
\* with the length and one entry after another
entries_section(kind, entries) ==
    IF Falsy(entries) THEN Returned(<<>>)
    ELSE LET n == PyLen(entries)
             each == Iterate(entries)
         IN  IF n.exc # "" THEN n
             ELSE Then(Returned(<<Line(kind, JNum(100 * n.val), JNull)>>),
                       IF each.exc # "" THEN each
                       ELSE entries_loop(kind, each.val, 1))

\* HeuristicAgent.generate_report
generate_report(evaluation_result_) ==
    IF evaluation_result_.t # "obj" THEN Raised("AttributeError")
    ELSE Then(Returned(<<Heading("report_title"),
                         Line("score", Get(evaluation_result_, "overall_score", JNum(0)),
                              JNull)>>),
         Then(violations_section(Get(evaluation_result_, "violations", EmptyList)),
         Then(entries_section("strengths", Get(evaluation_result_, "strengths", EmptyList)),
         Then(entries_section("mobile_issues",
                              Get(evaluation_result_, "mobile_specific_issues", EmptyList)),
              Returned(<<Heading("report_end")>>)))))

----------------------------------------------------------------------------
(* WireframeAgent *)

FenceHtml == <<BQ, BQ, BQ, "h", "t", "m", "l">>

\* s.find(sub, start): the first index (from 0) at or after start, or -1
RECURSIVE Find(_, _, _)
Find(s, sub, start) ==
    IF start + Len(sub) > Len(s) THEN -1
    ELSE IF SubSeq(s, start + 1, start + Len(sub)) = sub THEN start
    ELSE Find(s, sub, start + 1)

\* s[a:b] for a >= 0 and any b
Slice(s, a, b) ==
    LET e == IF b < 0 THEN Max(Len(s) + b, 0) ELSE Min(b, Len(s)) IN
    SubSeq(s, a + 1, e)

\* the fence handling of _extract_html without the strip of the slice
extract_fenced_unstripped(response_text_) ==
    LET cleaned == Strip(response_text_) IN
    IF Find(cleaned, FenceHtml, 0) >= 0 THEN
        LET start == Find(cleaned, FenceHtml, 0) + 7
            end == Find(cleaned, Fence, start)
        IN  Slice(cleaned, start, end)
    ELSE IF Find(cleaned, Fence, 0) >= 0 THEN
        LET start == Find(cleaned, Fence, 0) + 3
            end == Find(cleaned, Fence, start)
        IN  Slice(cleaned, start, end)
    ELSE cleaned

\* the text _extract_html has before it looks for a document root
extract_fenced(response_text_) ==
    LET cleaned == Strip(response_text_) IN
    IF Find(cleaned, FenceHtml, 0) >= 0 THEN
        LET start == Find(cleaned, FenceHtml, 0) + 7
            end == Find(cleaned, Fence, start)
        IN  Strip(Slice(cleaned, start, end))
    ELSE IF Find(cleaned, Fence, 0) >= 0 THEN
        LET start == Find(cleaned, Fence, 0) + 3
            end == Find(cleaned, Fence, start)
        IN  Strip(Slice(cleaned, start, end))
    ELSE cleaned

\* the document shell _extract_html wraps a fragment in
HtmlShellHead == <<"<!DOCTYPE", " ", "html>", "\n", "<html>", "\n", "<head>", "\n",
                   "</head>", "\n", "<body>", "\n">>
HtmlShellTail == <<"\n", "</body>", "\n", "</html>">>

\* _extract_html without the wrapping in a document
extract_html_unwrapped(response_text_) == extract_fenced(response_text_)

\* WireframeAgent._extract_html
extract_html(response_text_) ==
    LET cleaned == extract_fenced(response_text_) IN
    IF StartsWith(cleaned, <<"<!DOCTYPE">>) \/ StartsWith(cleaned, <<"<html">>)
    THEN cleaned
    ELSE HtmlShellHead \o cleaned \o HtmlShellTail

\* WireframeAgent._create_wireframe_prompt
create_wireframe_prompt(vision_analysis, feedback_result_) ==
    IF vision_analysis.t # "obj" THEN Raised("AttributeError")
    ELSE LET components == Get(vision_analysis, "components", EmptyList) IN
         IF feedback_result_.t # "obj" THEN Raised("AttributeError")
         ELSE IF components.t \notin {"arr", "str"} THEN Raised("TypeError")
         ELSE Returned([screen_type |-> Get(vision_analysis, "screen_type", JStr("mobile app")),
                        components |-> components,
                        color_scheme |-> Get(vision_analysis, "color_scheme", EmptyDict),
                        feedback_items |-> Get(feedback_result_, "feedback_items", EmptyList),
                        wireframe_instructions |->
                            Get(feedback_result_, "wireframe_instructions", EmptyDict)])

\* WireframeAgent._create_complete_html: the viewer document, by what it embeds
create_complete_html(wireframe_html, vision_analysis, feedback_result_) ==
    LET summary == Get(feedback_result_, "summary", EmptyDict) IN
    IF summary.t # "obj" THEN Raised("AttributeError")
    ELSE Returned([t |-> "viewer",
                   v |-> [wireframe |-> wireframe_html,
                          total_issues |-> Get(summary, "total_issues", JNum(0)),
                          high |-> Get(summary, "high", JNum(0)),
                          medium |-> Get(summary, "medium", JNum(0)),
                          low |-> Get(summary, "low", JNum(0))]])

\* the path _save_html writes to at the second `second`
OutputPath(second) == [t |-> "path", v |-> <<"data/outputs/wireframe_", second, ".html">>]

\* generate_wireframe whose result after a failed write keeps the document
generate_wireframe_keeps_html(vision_analysis, feedback_result_, reply, write_ok, second) ==
    LET prompt == create_wireframe_prompt(vision_analysis, feedback_result_) IN
    IF prompt.exc # "" THEN StageReturn(ErrorResult(prompt.exc), "error", FALSE)
    ELSE IF reply.kind = "raise" THEN StageReturn(ErrorResult(reply.exc), "error", TRUE)
    ELSE LET html_code == extract_html(reply.text)
             complete_html == create_complete_html(html_code, vision_analysis,
                                                   feedback_result_)
         IN  IF complete_html.exc # ""
             THEN StageReturn(ErrorResult(complete_html.exc), "error", TRUE)
             ELSE IF ~write_ok
             THEN StageReturn(JObj(("error" :> JStr("OSError"))
                                   @@ ("wireframe_html" :> JText(html_code))),
                              "error", TRUE)
             ELSE StageReturn(
                      JObj(("wireframe_html" :> JText(html_code))
                           @@ ("complete_html" :> complete_html.val)
                           @@ ("output_path" :> OutputPath(second))
                           @@ ("timestamp" :> [t |-> "time", v |-> second])),
                      "ok", TRUE)

\* WireframeAgent.generate_wireframe: write_ok says whether _save_html can
\* write its file, second is the clock reading it names the file after
generate_wireframe(vision_analysis, feedback_result_, reply, write_ok, second) ==
    LET prompt == create_wireframe_prompt(vision_analysis, feedback_result_) IN
    IF prompt.exc # "" THEN StageReturn(ErrorResult(prompt.exc), "error", FALSE)
    ELSE IF reply.kind = "raise" THEN StageReturn(ErrorResult(reply.exc), "error", TRUE)
    ELSE LET html_code == extract_html(reply.text)
             complete_html == create_complete_html(html_code, vision_analysis,
                                                   feedback_result_)
         IN  IF complete_html.exc # ""
             THEN StageReturn(ErrorResult(complete_html.exc), "error", TRUE)
             ELSE IF ~write_ok THEN StageReturn(ErrorResult("OSError"), "error", TRUE)
             ELSE StageReturn(
                      JObj(("wireframe_html" :> JText(html_code))
                           @@ ("complete_html" :> complete_html.val)
                           @@ ("output_path" :> OutputPath(second))
                           @@ ("timestamp" :> [t |-> "time", v |-> second])),
                      "ok", TRUE)

----------------------------------------------------------------------------
(* The external model: what generate_content can do *)

LiteralOf(str) == CHOOSE l \in DOMAIN StringLit : StringLit[l] = str
NumeralOf(n) == CHOOSE l \in DOMAIN NumberLit : NumberLit[l] = n

RECURSIVE Encode(_)
RECURSIVE EncodeItems(_, _)
RECURSIVE EncodeMembers(_, _)

\* the JSON text of a value
Encode(x) ==
    CASE x.t = "null" -> <<"null">>
      [] x.t = "num" -> <<NumeralOf(x.v)>>
      [] x.t = "str" -> <<LiteralOf(x.v)>>
      [] x.t = "arr" -> <<"[">> \o EncodeItems(x.v, 1) \o <<"]">>
      [] x.t = "obj" -> <<"{">> \o EncodeMembers(x.v, DOMAIN x.v) \o <<"}">>

EncodeItems(a, i) ==
    IF i > Len(a) THEN <<>>
    ELSE Encode(a[i]) \o (IF i < Len(a) THEN <<",", " ">> ELSE <<>>)
         \o EncodeItems(a, i + 1)

EncodeMembers(f, keys) ==
    IF keys = {} THEN <<>>
    ELSE LET k == CHOOSE key \in keys : TRUE IN
         <<LiteralOf(k), ":", " ">> \o Encode(f[k])
         \o (IF keys \ {k} # {} THEN <<",", "\n">> ELSE <<>>)
         \o EncodeMembers(f, keys \ {k})

\* a text inside a json fence, as the model often answers
Fenced(text) == <<" ">> \o FenceJson \o <<"\n">> \o text \o <<"\n">> \o Fence \o <<"\n">>

TextReply(text) == [kind |-> "text", exc |-> "", text |-> text]
RaiseReply == [kind |-> "raise", exc |-> "APIError", text |-> <<>>]
NoReply == [kind |-> "none", exc |-> "", text |-> <<>>]

\* response texts that do not decode
BrokenReplies == { <<>>, <<"{">>, Fenced(<<"{", "\"violations\"", "}">>) }

Component == JObj("x" :> JStr("x"))

FeedbackItem(priority) ==
    IF priority = "" THEN JObj("issue" :> JStr("x"))
    ELSE JObj(("issue" :> JStr("x")) @@ ("priority" :> JStr(priority)))

\* a violation that carries the severity s; "" stands for no severity field
Violation(s) ==
    IF s = "" THEN JObj("issue" :> JStr("x"))
    ELSE JObj(("issue" :> JStr("x")) @@ ("severity" :> JStr(s)))

VisionReplyValues ==
    << EmptyDict,
       JObj(("screen_type" :> JStr("login")) @@ ("components" :> JArr(<<Component>>))),
       JObj("components" :> JNum(700)),
       JObj(("error" :> JStr("x")) @@ ("components" :> EmptyList)),
       EmptyList,
       JNum(700) >>

EvaluationReplyValues ==
    << EmptyDict,
       JObj("violations" :> EmptyList),
       JObj(("violations" :> JArr(<<Violation("high")>>))
            @@ ("overall_score" :> JNum(700))),
       JObj("violations" :> JArr(<<Violation("critical"), Violation("")>>)),
       JObj(("violations" :> JArr(<<Violation(""), Violation("urgent"),
                                    Violation("medium")>>))
            @@ ("overall_score" :> JNum(0))),
       JObj(("violations" :> JNull) @@ ("overall_score" :> JNum(700))),
       JObj("violations" :> JNum(700)),
       JObj("violations" :> JArr(<<JNum(700)>>)),
       JObj(("error" :> JStr("x")) @@ ("violations" :> JArr(<<Violation("low")>>))),
       EmptyList,
       JNum(700) >>

FeedbackReplyValues ==
    << EmptyDict,
       JObj("feedback_items" :> EmptyList),
       JObj(("feedback_items" :> JArr(<<FeedbackItem("high")>>))
            @@ ("total_feedback_items" :> JNum(700))),
       JObj(("feedback_items" :> JArr(<<FeedbackItem("low"), FeedbackItem("")>>))
            @@ ("platform" :> JStr("web")) @@ ("total_feedback_items" :> JNum(0))),
       JObj("feedback_items" :> JNum(700)),
       JObj("feedback_items" :> JObj("x" :> JNum(700))),
       JObj(("error" :> JStr("x")) @@ ("feedback_items" :> JArr(<<FeedbackItem("low")>>))),
       JObj(("feedback_items" :> EmptyList) @@ ("summary" :> EmptyList)),
       EmptyList,
       JNum(700) >>

\* the replies to a stage that asks for JSON: a failed call, each value as a
\* bare text, the first values also inside a fence, and texts that do not decode
JsonReplies(values) ==
    {RaiseReply}
    \cup {TextReply(Encode(values[i])) : i \in 1..Len(values)}
    \cup {TextReply(Fenced(Encode(values[i]))) : i \in 2..3}
    \cup {TextReply(text) : text \in BrokenReplies}

VisionReplies == JsonReplies(VisionReplyValues)
EvaluationReplies == JsonReplies(EvaluationReplyValues)
FeedbackReplies == JsonReplies(FeedbackReplyValues)

\* the replies to the regeneration stage
WireframeReplies ==
    {RaiseReply}
    \cup {TextReply(text) : text \in
            { <<"<!DOCTYPE", " ", "html>", "<div>">>,
              FenceHtml \o <<"\n", "<html", ">", "<div>", "\n">> \o Fence,
              Fence \o <<"<div>">> \o Fence \o <<"\n">>,
              FenceHtml \o <<"\n", "<html", ">", "<div>">>,
              <<"<div>">>,
              <<>> }}

----------------------------------------------------------------------------
(* Parsing: the inputs *)

\* texts of JSON objects
ObjectBodies ==
    { <<"{", "}">>,
      <<"{", "\"violations\"", ":", "[", "{", "\"severity\"", ":", "\"high\"",
        "}", "]", ",", "\"overall_score\"", ":", "7", "}">>,
      <<"{", " ", "\"violations\"", ":", "\n", "[", "]", " ", "}">>,
      <<"{", "\"feedback_items\"", ":", "[", "{", "}", ",", "{", "\"priority\"",
        ":", "\"low\"", "}", "]", "}">>,
      <<"{", "\"screen_type\"", ":", "\"login\"", ",", "\"components\"", ":",
        "null", "}">> }

\* texts of JSON values that are not objects
OtherJsonBodies == { <<"[", "]">>, <<"7">>, <<"[", "7", ",", "\"x\"", "]">> }

\* texts that are not JSON
BrokenBodies ==
    { <<>>, <<"{">>, <<"{", "}", "{", "}">>, <<"j", "s", "o", "n">>,
      <<"{", "\"x\"", "7", "}">>, <<"[", "7", ",", "]">>, <<BQ>> }

Bodies == ObjectBodies \cup OtherJsonBodies \cup BrokenBodies

Pads == UNION {[1..n -> Whitespace] : n \in 0..MaxPad}
InnerPads == {<<>>, <<"\n">>}
OpenFences == {<<>>, Fence, FenceJson, <<BQ, BQ>>, <<BQ, BQ, BQ, BQ>>}
CloseFences == {<<>>, Fence, <<BQ, BQ>>, <<BQ, BQ, BQ, BQ>>}

TextOf(p) == p.lead \o p.open \o p.in1 \o p.body \o p.in2 \o p.close \o p.trail

----------------------------------------------------------------------------
(* Parsing: the calls *)

InitParse ==
    /\ parts \in [lead : Pads, open : OpenFences, in1 : InnerPads, body : Bodies,
                  in2 : InnerPads, close : CloseFences, trail : Pads]
    /\ response_text = TextOf(parts)
    /\ parsedV = Pending
    /\ parsedH = Pending
    /\ parsedF = Pending
    /\ cleanedOnce = Pending
    /\ cleanedTwice = Pending
    /\ extracted_html = Pending
    /\ ScoreIdle
    /\ PipeIdle
    /\ ReportIdle
    /\ DiskIdle

\* VisionAgent._parse_response(response_text)
CallParseResponse ==
    /\ parsedV = Pending
    /\ parsedV' = Returned(parse_response(response_text))
    /\ UNCHANGED <<parts, response_text, parsedH, parsedF, cleanedOnce, cleanedTwice,
                   extracted_html>>
    /\ UNCHANGED <<scoreVars, pipeVars, reportVars, diskVars>>

\* HeuristicAgent._parse_evaluation_response(response_text)
CallParseEvaluationResponse ==
    /\ parsedV # Pending
    /\ parsedH = Pending
    /\ parsedH' = Returned(parse_evaluation_response(response_text))
    /\ UNCHANGED <<parts, response_text, parsedV, parsedF, cleanedOnce, cleanedTwice,
                   extracted_html>>
    /\ UNCHANGED <<scoreVars, pipeVars, reportVars, diskVars>>

\* FeedbackAgent._parse_feedback_response(response_text)
CallParseFeedbackResponse ==
    /\ parsedH # Pending
    /\ parsedF = Pending
    /\ parsedF' = Returned(parse_feedback_response(response_text))
    /\ UNCHANGED <<parts, response_text, parsedV, parsedH, cleanedOnce, cleanedTwice,
                   extracted_html>>
    /\ UNCHANGED <<scoreVars, pipeVars, reportVars, diskVars>>

NextParse ==
    CallParseResponse \/ CallParseEvaluationResponse \/ CallParseFeedbackResponse

SpecParse == InitParse /\ [][NextParse]_vars

----------------------------------------------------------------------------
(* Fence stripping: the stripping step applied to a text and to its output *)

\* opening fences, among them a fence inside a fence
NestedOpenFences ==
    {<<>>, Fence, FenceJson, <<BQ, BQ, BQ, BQ>>, Fence \o FenceJson,
     Fence \o <<"\n">> \o Fence}
NestedCloseFences == {<<>>, Fence, <<BQ, BQ>>, Fence \o Fence, Fence \o <<"\n">> \o Fence}

InitStrip ==
    /\ parts \in [lead : Pads, open : NestedOpenFences, in1 : InnerPads,
                  body : Bodies, in2 : InnerPads, close : NestedCloseFences,
                  trail : Pads]
    /\ response_text = TextOf(parts)
    /\ parsedV = Pending
    /\ parsedH = Pending
    /\ parsedF = Pending
    /\ cleanedOnce = Pending
    /\ cleanedTwice = Pending
    /\ extracted_html = Pending
    /\ ScoreIdle
    /\ PipeIdle
    /\ ReportIdle
    /\ DiskIdle

\* the stripping step of _parse_response on the response text
StripResponse ==
    /\ cleanedOnce = Pending
    /\ cleanedOnce' = Returned(clean_response(response_text))
    /\ UNCHANGED <<parts, response_text, parsedV, parsedH, parsedF, cleanedTwice,
                   extracted_html>>
    /\ UNCHANGED <<scoreVars, pipeVars, reportVars, diskVars>>

\* the stripping step on the text it produced
StripAgain ==
    /\ cleanedOnce # Pending
    /\ cleanedTwice = Pending
    /\ extracted_html = Pending
    /\ cleanedTwice' = Returned(clean_response(cleanedOnce.val))
    /\ UNCHANGED <<parts, response_text, parsedV, parsedH, parsedF, cleanedOnce,
                   extracted_html>>
    /\ UNCHANGED <<scoreVars, pipeVars, reportVars, diskVars>>

NextStrip == StripResponse \/ StripAgain

SpecStrip == InitStrip /\ [][NextStrip]_vars

----------------------------------------------------------------------------
(* HTML extraction: the inputs and the calls *)

\* what the model answers as its document
HtmlBodies ==
    { <<"<!DOCTYPE", " ", "html>", "<div>">>,
      <<"<html", ">", "<div>", "</html>">>,
      <<"<div>">>,
      <<"<!doctype", " ", "html>", "<div>">>,
      <<"<div>", BQ, "<p>">>,
      <<>> }

\* prose before and after the document
Preambles == {<<>>, <<"Here", " ">>}
Postambles == {<<>>, <<" ", "Done">>}

HtmlOpenFences == {<<>>, Fence, FenceHtml}
HtmlCloseFences == {<<>>, Fence}

HtmlTextOf(p) ==
    p.lead \o p.pre \o p.open \o p.in1 \o p.body \o p.in2 \o p.close \o p.post
    \o p.trail

InitExtract ==
    /\ parts \in [lead : Pads, pre : Preambles, open : HtmlOpenFences,
                  in1 : InnerPads, body : HtmlBodies, in2 : InnerPads,
                  close : HtmlCloseFences, post : Postambles, trail : Pads]
    /\ response_text = HtmlTextOf(parts)
    /\ parsedV = Pending
    /\ parsedH = Pending
    /\ parsedF = Pending
    /\ cleanedOnce = Pending
    /\ cleanedTwice = Pending
    /\ extracted_html = Pending
    /\ ScoreIdle
    /\ PipeIdle
    /\ ReportIdle
    /\ DiskIdle

\* html_code = self._extract_html(response.text)
CallExtractHtml ==
    /\ extracted_html = Pending
    /\ extracted_html' = Returned(extract_html(response_text))
    /\ UNCHANGED <<parts, response_text, parsedV, parsedH, parsedF, cleanedOnce,
                   cleanedTwice>>
    /\ UNCHANGED <<scoreVars, pipeVars, reportVars, diskVars>>

NextExtract == CallExtractHtml

SpecExtract == InitExtract /\ [][NextExtract]_vars

----------------------------------------------------------------------------
(* The developer report: the inputs *)

\* the priority of a feedback item; "" stands for no priority field
ItemPriorities == {"critical", "high", "medium", "low", "urgent", ""}

\* the i-th feedback item: with every field, or with its priority alone
ReportItem(i, priority, detail) ==
    LET p == IF priority = "" THEN <<>> ELSE "priority" :> JStr(priority)
        full == ("id" :> JNum(100 * i)) @@ ("title" :> JStr("x"))
                @@ ("category" :> JStr("x")) @@ ("estimated_effort" :> JStr("x"))
                @@ ("why_it_matters" :> JStr("x"))
                @@ ("what_to_do" :> JArr(<<JStr("x"), JStr("issue")>>))
                @@ ("code_example" :> JObj(("language" :> JStr("x"))
                                           @@ ("code" :> JStr("x"))))
                @@ ("wireframe_changes" :> JStr("x"))
        partial == ("id" :> JNum(100 * i))
                   @@ ("code_example" :> JObj("language" :> JStr("x")))
    IN  JObj(CASE detail = "full" -> p @@ full
               [] detail = "partial" -> p @@ partial
               [] detail = "bare" -> p)

QuickWin == JObj(("change" :> JStr("x")) @@ ("impact" :> JStr("x"))
                 @@ ("effort" :> JStr("x")))

\* a top-level field of the feedback result: <<>> when the key is missing,
\* <<v>> when it is there with the value v
QuickWinsChoices == { <<>>, <<EmptyList>>, <<JArr(<<EmptyDict, QuickWin>>)>> }

SummaryChoices ==
    { <<>>, <<JObj(("total_issues" :> JNum(700)) @@ ("high" :> JNum(700)))>> }

InstructionsChoices ==
    { <<>>, <<EmptyDict>>,
      <<JObj(("overall_changes" :> JStr("x"))
             @@ ("typography_changes" :> JArr(<<JStr("x")>>))
             @@ ("color_adjustments" :> EmptyList)
             @@ ("layout_modifications" :> JArr(<<JStr("x")>>)))>> }

Field(key, choice) == IF choice = <<>> THEN <<>> ELSE key :> choice[1]

\* feedback results in which keys may be missing but every value has its type
WellTypedResults ==
    { JObj(Field("feedback_items", IF its = <<>> /\ detail = "bare" THEN <<>>
                 ELSE <<JArr([i \in 1..Len(its) |-> ReportItem(i, its[i], detail)])>>)
           @@ Field("quick_wins", qw) @@ Field("summary", su)
           @@ Field("wireframe_instructions", wi)) :
        its \in UNION {[1..n -> ItemPriorities] : n \in 0..MaxItems},
        detail \in {"full", "partial", "bare"},
        qw \in QuickWinsChoices, su \in SummaryChoices, wi \in InstructionsChoices }

\* feedback results in which a value has another type than the report
\* expects, and one whose summary is complete
OtherResults ==
    { JObj("quick_wins" :> JNum(700)),
      JObj("feedback_items" :> JArr(<<JNum(700)>>)),
      JObj("feedback_items" :> JNull),
      JObj("summary" :> JNull),
      JObj("feedback_items" :> JArr(<<JObj(("priority" :> JStr("high"))
                                           @@ ("what_to_do" :> JNull))>>)),
      JObj("feedback_items" :> JArr(<<JObj(("priority" :> JStr("high"))
               @@ ("code_example" :> JObj("code" :> JNum(700))))>>)),
      JObj("wireframe_instructions" :> JStr("x")),
      JObj("summary" :> JObj(("total_issues" :> JNum(700)) @@ ("critical" :> JNum(0))
             @@ ("high" :> JNum(700)) @@ ("medium" :> JNum(0))
             @@ ("low" :> JNum(0)) @@ ("estimated_total_time" :> JStr("x")))),
      EmptyList }

\* the results generate_feedback returns from its except clause and after
\* its parse fallback
FallbackResults ==
    { ErrorResult("APIError"),
      generate_feedback(EmptyDict, EmptyDict, DefaultPlatform, TextReply(<<"{">>)).result }

----------------------------------------------------------------------------
(* The developer report: the calls *)

InitReport ==
    /\ report_input \in WellTypedResults \cup OtherResults \cup FallbackResults
    /\ report = Pending
    /\ ScoreIdle
    /\ ParseIdle
    /\ PipeIdle
    /\ DiskIdle

\* report = feedback_agent.generate_developer_report(feedback_result)
CallGenerateDeveloperReport ==
    /\ report = Pending
    /\ report' = generate_developer_report(report_input)
    /\ UNCHANGED report_input
    /\ UNCHANGED <<scoreVars, parseVars, pipeVars, diskVars>>

NextReport == CallGenerateDeveloperReport

SpecReport == InitReport /\ [][NextReport]_vars

----------------------------------------------------------------------------
(* Scoring: the inputs *)

Severities == {"critical", "high", "medium", "low"}

ViolationKinds == {Violation(s) : s \in Severities \cup {"urgent", ""}}

ViolationLists ==
    UNION {[1..n -> ViolationKinds] : n \in 0..MaxViolations}

SwapAt(s, i, j) ==
    [k \in 1..Len(s) |-> IF k = i THEN s[j] ELSE IF k = j THEN s[i] ELSE s[k]]

----------------------------------------------------------------------------
(* Scoring: the calls *)

InitScore ==
    /\ violations \in ViolationLists
    /\ score = Pending
    /\ prevViolations = <<>>
    /\ prevScore = Pending
    /\ ParseIdle
    /\ PipeIdle
    /\ ReportIdle
    /\ DiskIdle

\* self._calculate_score(violations)
CallCalculateScore ==
    /\ score = Pending
    /\ score' = calculate_score(JArr(violations))
    /\ UNCHANGED <<violations, prevViolations, prevScore>>
    /\ UNCHANGED <<parseVars, pipeVars, reportVars, diskVars>>

\* a second call, on the list with one more violation appended
CallOnAppended ==
    /\ score # Pending
    /\ Len(violations) < MaxViolations
    /\ \E v \in ViolationKinds :
         /\ violations' = Append(violations, v)
         /\ score' = calculate_score(JArr(violations'))
    /\ prevViolations' = violations
    /\ prevScore' = score
    /\ UNCHANGED <<parseVars, pipeVars, reportVars, diskVars>>

\* a second call, on the list with two of its violations exchanged
CallOnPermuted ==
    /\ score # Pending
    /\ \E i, j \in 1..Len(violations) :
         /\ i < j
         /\ violations[i] # violations[j]
         /\ violations' = SwapAt(violations, i, j)
         /\ score' = calculate_score(JArr(violations'))
    /\ prevViolations' = violations
    /\ prevScore' = score
    /\ UNCHANGED <<parseVars, pipeVars, reportVars, diskVars>>

NextScore == CallCalculateScore \/ CallOnAppended \/ CallOnPermuted

SpecScore == InitScore /\ [][NextScore]_vars

----------------------------------------------------------------------------
(* test_complete_pipeline *)

Seconds == 1..MaxSecond

Init ==
    /\ pc = "VisionAgent"
    /\ config \in [api_key : BOOLEAN, rubric : {"missing", "ok"}]
    /\ vision_result = Unset
    /\ evaluation_result = Unset
    /\ feedback_result = Unset
    /\ wireframe_result = Unset
    /\ ran = <<>>
    /\ ScoreIdle
    /\ ParseIdle
    /\ ReportIdle
    /\ DiskIdle

\* what a stage leaves in `ran`: the reply to its call, the return statement
\* it took, the requests it sent, the arguments it was called with, the
\* value it returned, its place among the stage calls of this run and the
\* number of times it has been called
Ran(stage, reply, out, args) ==
    (stage :> [reply |-> IF out.called THEN reply ELSE NoReply,
               path |-> out.path, called |-> out.called, calls |-> out.calls,
               args |-> args, result |-> out.result,
               nth |-> Cardinality(DOMAIN ran) + 1,
               times |-> IF stage \in DOMAIN ran THEN ran[stage].times + 1 ELSE 1])
    @@ ran

\* the arguments test_complete_pipeline passes to each stage
EvaluateArgs == <<vision_result>>
FeedbackArgs == <<vision_result, evaluation_result>>
WireframeArgsFromEvaluation == <<vision_result, evaluation_result>>
WireframeArgs == <<vision_result, feedback_result>>

\* vision_agent = VisionAgent()
NewVisionAgent ==
    /\ pc = "VisionAgent"
    /\ pc' = IF config.api_key THEN "analyze_screenshot" ELSE "raised"
    /\ UNCHANGED <<config, vision_result, evaluation_result,
                   feedback_result, wireframe_result, ran>>
    /\ UNCHANGED <<scoreVars, parseVars, reportVars, diskVars>>

\* vision_result = vision_agent.analyze_screenshot(image_path)
AnalyzeScreenshot ==
    /\ pc = "analyze_screenshot"
    /\ \E image_ok \in BOOLEAN, reply \in VisionReplies :
         LET out == analyze_screenshot(image_ok, reply) IN
         /\ vision_result' = out.result
         /\ ran' = Ran("perception", reply, out, <<>>)
    /\ pc' = "HeuristicAgent"
    /\ UNCHANGED <<config, evaluation_result, feedback_result,
                   wireframe_result>>
    /\ UNCHANGED <<scoreVars, parseVars, reportVars, diskVars>>

\* heuristic_agent = HeuristicAgent(), which loads the rubric file
NewHeuristicAgent ==
    /\ pc = "HeuristicAgent"
    /\ pc' = IF config.rubric = "missing" THEN "raised" ELSE "evaluate"
    /\ UNCHANGED <<config, vision_result, evaluation_result,
                   feedback_result, wireframe_result, ran>>
    /\ UNCHANGED <<scoreVars, parseVars, reportVars, diskVars>>

\* an evaluate that writes its score into the description it was given
EvaluateStampingInput ==
    /\ pc = "evaluate"
    /\ \E reply \in EvaluationReplies :
         LET out == evaluate(EvaluateArgs[1], reply) IN
         /\ evaluation_result' = out.result
         /\ ran' = Ran("evaluation", reply, out, EvaluateArgs)
         /\ vision_result' = IF vision_result.t = "obj" /\ out.result.t = "obj"
                             THEN JObj(SetItem(vision_result.v, "overall_score",
                                               Get(out.result, "overall_score", JNull)))
                             ELSE vision_result
    /\ pc' = "generate_feedback"
    /\ UNCHANGED <<config, feedback_result, wireframe_result>>
    /\ UNCHANGED <<scoreVars, parseVars, reportVars, diskVars>>

\* evaluation_result = heuristic_agent.evaluate(vision_result)
Evaluate ==
    /\ pc = "evaluate"
    /\ \E reply \in EvaluationReplies :
         LET out == evaluate(EvaluateArgs[1], reply) IN
         /\ evaluation_result' = out.result
         /\ ran' = Ran("evaluation", reply, out, EvaluateArgs)
    /\ pc' = "generate_feedback"
    /\ UNCHANGED <<config, vision_result, feedback_result,
                   wireframe_result>>
    /\ UNCHANGED <<scoreVars, parseVars, reportVars, diskVars>>

\* feedback_agent = FeedbackAgent()
\* feedback_result = feedback_agent.generate_feedback(vision_result, evaluation_result)
GenerateFeedback ==
    /\ pc = "generate_feedback"
    /\ \E reply \in FeedbackReplies :
         LET out == generate_feedback(FeedbackArgs[1], FeedbackArgs[2],
                                      DefaultPlatform, reply) IN
         /\ feedback_result' = out.result
         /\ ran' = Ran("feedback", reply, out, FeedbackArgs)
    /\ pc' = "generate_wireframe"
    /\ UNCHANGED <<config, vision_result, evaluation_result,
                   wireframe_result>>
    /\ UNCHANGED <<scoreVars, parseVars, reportVars, diskVars>>

\* generate_wireframe gets as far as _save_html
SaveReached(vision_analysis, feedback_result_, reply) ==
    /\ create_wireframe_prompt(vision_analysis, feedback_result_).exc = ""
    /\ reply.kind = "text"
    /\ create_complete_html(extract_html(reply.text), vision_analysis,
                            feedback_result_).exc = ""

\* a file that open(path, 'w') emptied and whose write did not complete
Truncated == [t |-> "truncated", v |-> 0]

\* _save_html overwrites: open(output_path, 'w')
Written(path, content) == (path :> content) @@ files

\* what a generate_wireframe call that read the clock at `second` does to
\* data/outputs
save_html(out, reached, second) ==
    /\ clock' = IF reached THEN second ELSE clock
    /\ IF out.path = "ok"
       THEN files' = Written(OutputPath(second), out.result.v["complete_html"])
       ELSE IF reached
       THEN files' \in {files, Written(OutputPath(second), Truncated)}
       ELSE files' = files
    /\ runs' = Append(runs, [saved |-> out.path = "ok",
                             second |-> IF reached THEN second ELSE 0,
                             result |-> out.result])

\* wireframe_agent = WireframeAgent()
\* wireframe_result = wireframe_agent.generate_wireframe(vision_result, feedback_result)
GenerateWireframe ==
    /\ pc = "generate_wireframe"
    /\ \E reply \in WireframeReplies, write_ok \in BOOLEAN, second \in Seconds :
         LET out == generate_wireframe(WireframeArgs[1], WireframeArgs[2], reply,
                                       write_ok, second) IN
         /\ wireframe_result' = out.result
         /\ ran' = Ran("regeneration", reply, out, WireframeArgs)
         /\ save_html(out, SaveReached(WireframeArgs[1], WireframeArgs[2], reply),
                      second)
    /\ pc' = "save_outputs"
    /\ UNCHANGED <<config, vision_result, evaluation_result,
                   feedback_result>>
    /\ UNCHANGED <<scoreVars, parseVars, reportVars>>

\* a file test_complete_pipeline writes in data/outputs
OutputFile(name) == [t |-> "path", v |-> <<"data/outputs/", name>>]

\* lines 50-64: the four json.dump calls
DumpedOutputs ==
    (OutputFile("1_vision_analysis.json") :> vision_result)
    @@ (OutputFile("2_heuristic_evaluation.json") :> evaluation_result)
    @@ (OutputFile("3_feedback.json") :> feedback_result)
    @@ (OutputFile("4_wireframe_metadata.json") :>
           JObj(("output_path" :> Get(wireframe_result, "output_path", JNull))
                @@ ("timestamp" :> Get(wireframe_result, "timestamp", JNull))))

\* lines 46-94: the outputs are saved, then the developer report is rendered
\* and saved; data/outputs is taken to be writable at this point
SaveOutputs ==
    /\ pc = "save_outputs"
    /\ LET rendered == generate_developer_report(feedback_result) IN
         /\ report_input' = feedback_result
         /\ report' = rendered
         /\ files' = IF rendered.exc = ""
                     THEN (OutputFile("DEVELOPER_FEEDBACK.md") :> rendered.val)
                          @@ DumpedOutputs @@ files
                     ELSE DumpedOutputs @@ files
         /\ pc' = IF rendered.exc = "" THEN "done" ELSE "raised"
    /\ UNCHANGED <<config, vision_result, evaluation_result, feedback_result,
                   wireframe_result, ran, clock, runs>>
    /\ UNCHANGED <<scoreVars, parseVars>>

Next ==
    \/ NewVisionAgent
    \/ AnalyzeScreenshot
    \/ NewHeuristicAgent
    \/ Evaluate
    \/ GenerateFeedback
    \/ GenerateWireframe
    \/ SaveOutputs

Spec == Init /\ [][Next]_vars

----------------------------------------------------------------------------
(* test_full_pipeline of test_feedback_agent: evaluate, then generate_report *)

\* the UI descriptions the evaluation is given: decoded ones and fallbacks
ReportVisions ==
    {VisionReplyValues[i] : i \in 1..Len(VisionReplyValues)}
    \cup {ErrorResult("APIError"),
          JObj(("raw_response" :> JText(<<"{">>))
               @@ ("parse_error" :> JStr("JSONDecodeError")))}

InitEvaluationReport ==
    /\ pc = "evaluate"
    /\ config = [api_key |-> TRUE, rubric |-> "ok"]
    /\ vision_result \in ReportVisions
    /\ evaluation_result = Unset
    /\ feedback_result = Unset
    /\ wireframe_result = Unset
    /\ ran = <<>>
    /\ DiskIdle
    /\ ScoreIdle
    /\ ParseIdle
    /\ ReportIdle

\* report = heuristic_agent.generate_report(evaluation_result)
GenerateReport ==
    /\ pc = "generate_feedback"
    /\ report = Pending
    /\ report_input' = evaluation_result
    /\ report' = generate_report(evaluation_result)
    /\ UNCHANGED <<scoreVars, parseVars, pipeVars, diskVars>>

NextEvaluationReport == Evaluate \/ GenerateReport

SpecEvaluationReport == InitEvaluationReport /\ [][NextEvaluationReport]_vars

----------------------------------------------------------------------------
(* Regeneration runs that share data/outputs *)

RegenVisions == {VisionReplyValues[2]}
RegenFeedbacks == {FeedbackReplyValues[3], FeedbackReplyValues[8]}

InitRegen ==
    /\ pc = "generate_wireframe"
    /\ config = <<>>
    /\ vision_result \in RegenVisions
    /\ evaluation_result = Unset
    /\ feedback_result \in RegenFeedbacks
    /\ wireframe_result = Unset
    /\ ran = <<>>
    /\ DiskIdle
    /\ ScoreIdle
    /\ ParseIdle
    /\ ReportIdle

\* one more run of generate_wireframe on the same inputs; the wall clock
\* has not gone back since the run before
RunGenerateWireframe ==
    /\ pc = "generate_wireframe"
    /\ Len(runs) < MaxRuns
    /\ \E reply \in WireframeReplies, write_ok \in BOOLEAN, second \in Seconds :
         LET out == generate_wireframe(vision_result, feedback_result, reply,
                                       write_ok, second) IN
         /\ second >= clock
         /\ wireframe_result' = out.result
         /\ save_html(out, SaveReached(vision_result, feedback_result, reply),
                      second)
    /\ UNCHANGED <<pc, config, vision_result, evaluation_result,
                   feedback_result, ran>>
    /\ UNCHANGED <<scoreVars, parseVars, reportVars>>

NextRegen == RunGenerateWireframe

SpecRegen == InitRegen /\ [][NextRegen]_vars

----------------------------------------------------------------------------
(* Scoring: the claims *)

CountSeverity(vs, s) ==
    Cardinality({i \in 1..Len(vs) : Get(vs[i], "severity", JNull) = JStr(s)})

CountMissing(vs) ==
    Cardinality({i \in 1..Len(vs) : "severity" \notin DOMAIN vs[i].v})

\* the sum of the four documented weights, in hundredths
WeightSum(vs) ==
    1000 * CountSeverity(vs, "critical") + 300 * CountSeverity(vs, "high")
    + 100 * CountSeverity(vs, "medium") + 30 * CountSeverity(vs, "low")

Clamp(lo, x, hi) == IF x < lo THEN lo ELSE IF x > hi THEN hi ELSE x

Saturated(vs) == CountSeverity(vs, "critical") > 0 \/ WeightSum(vs) >= 1000

IsPermutation(a, b) ==
    /\ Len(a) = Len(b)
    /\ \A k \in ViolationKinds :
         Cardinality({i \in 1..Len(a) : a[i] = k})
           = Cardinality({i \in 1..Len(b) : b[i] = k})

IsExtension(a, b) ==
    /\ Len(b) > Len(a)
    /\ SubSeq(b, 1, Len(a)) = a

Highs(n) == [i \in 1..n |-> Violation("high")]

\* C1: for every list of violations that each carry a severity, the score is
\* 10.0 minus the sum of the severity weights (critical 10, high 3, medium 1,
\* low 0.3, anything else 0) clamped to at most 10, floored at 0 and a whole
\* number of tenths; the empty list scores 10.0.
C1_ScoreIsTenMinusClampedDeduction ==
    (score # Pending /\ CountMissing(violations) = 0) =>
        /\ score.exc = ""
        /\ score.val = Clamp(0, 1000 - Clamp(0, WeightSum(violations), 1000), 1000)
        /\ score.val % 10 = 0
        /\ (violations = <<>> => score.val = 1000)

C1_Witness ==
    /\ score # Pending
    /\ CountMissing(violations) = 0
    /\ CountSeverity(violations, "high") = 1
    /\ CountSeverity(violations, "medium") = 1
    /\ CountSeverity(violations, "low") = 2
    /\ score.val = 540

\* C2: a list with a critical violation, or whose weights sum to 10 or more,
\* scores 0.0, and so does every list obtained by appending to it; three high
\* violations score 1.0 and four score 0.0.
C2_ScoreSaturates ==
    score # Pending =>
        /\ Saturated(violations) => score = Returned(0)
        /\ (prevScore # Pending /\ Saturated(prevViolations)
              /\ IsExtension(prevViolations, violations)) => score = Returned(0)
        /\ violations = Highs(3) => score = Returned(100)
        /\ violations = Highs(4) => score = Returned(0)

C2_Witness ==
    /\ score = Returned(0)
    /\ prevScore = Returned(0)
    /\ Saturated(prevViolations)
    /\ IsExtension(prevViolations, violations)
    /\ CountSeverity(violations, "critical") = 1
    /\ CountSeverity(violations, "high") = 2

\* C3 as stated: a list made only of violations whose severity is an
\* unrecognised string or is missing scores 10.0.
C3_UnknownOrMissingScoresTen ==
    (score # Pending /\ WeightSum(violations) = 0) => score = Returned(1000)

\* C3 as the code has it: an unrecognised severity string contributes 0, and a
\* violation without a severity field counts as low and contributes 0.3.
C3_UnknownIsZeroMissingIsLow ==
    score # Pending =>
        /\ score.exc = ""
        /\ score.val =
             Clamp(0, 1000 - Clamp(0, WeightSum(violations)
                                        + 30 * CountMissing(violations), 1000), 1000)
        /\ (WeightSum(violations) = 0 /\ CountMissing(violations) = 0)
             => score.val = 1000

C3_Witness ==
    /\ score = Returned(940)
    /\ WeightSum(violations) = 0
    /\ CountMissing(violations) = 2
    /\ Len(violations) = 3

\* C4: the score of a list and the score of a permutation of it are equal.
C4_ScoreIsOrderIndependent ==
    (score # Pending /\ prevScore # Pending
       /\ IsPermutation(prevViolations, violations)) => score = prevScore

C4_Witness ==
    /\ score # Pending
    /\ prevScore # Pending
    /\ violations # prevViolations
    /\ IsPermutation(prevViolations, violations)
    /\ violations[Len(violations)] = Violation("critical")
    /\ prevViolations[Len(violations)] = Violation("low")

----------------------------------------------------------------------------
(* Parsing: the claims *)

\* the text is a JSON object text between an opening and a closing fence
IsFencedObject(p) ==
    /\ p.open \in {Fence, FenceJson}
    /\ p.close = Fence
    /\ p.body \in ObjectBodies

\* the result is the fallback a routine builds from a JSONDecodeError
IsParseFallback(r, text) ==
    /\ r.t = "obj"
    /\ {"raw_response", "parse_error"} \subseteq DOMAIN r.v
    /\ r.v["raw_response"] = JText(text)

\* C10: in each of the three parse routines a JSON object text wrapped in a
\* leading and a trailing fence, with optional whitespace around, parses to
\* the value of the bare text; and on every response text the three routines
\* agree on whether it parses and on the decoded value.
C10_FencedParsesAsBareAndRoutinesAgree ==
    /\ (parsedV # Pending /\ IsFencedObject(parts)) =>
          /\ parsedV.val = json_loads(parts.body).val
          /\ parsedV.val = parse_response(parts.body)
    /\ (parsedH # Pending /\ IsFencedObject(parts)) =>
          /\ parsedH.val = json_loads(parts.body).val
          /\ parsedH.val = parse_evaluation_response(parts.body)
    /\ (parsedF # Pending /\ IsFencedObject(parts)) =>
          /\ parsedF.val = json_loads(parts.body).val
          /\ parsedF.val = parse_feedback_response(parts.body)
    /\ parsedF # Pending =>
          /\ IsParseFallback(parsedV.val, response_text)
               = IsParseFallback(parsedH.val, response_text)
          /\ IsParseFallback(parsedV.val, response_text)
               = IsParseFallback(parsedF.val, response_text)
          /\ ~IsParseFallback(parsedV.val, response_text) =>
               (parsedH.val = parsedV.val /\ parsedF.val = parsedV.val)

C10_Witness ==
    /\ parsedF # Pending
    /\ parts.open = FenceJson
    /\ parts.close = Fence
    /\ parts.lead # <<>>
    /\ parts.in1 = <<"\n">>
    /\ parts.trail # <<>>
    /\ parsedF.val.t = "obj"
    /\ "violations" \in DOMAIN parsedF.val.v
    /\ "overall_score" \in DOMAIN parsedF.val.v
    /\ parsedV.val = parsedF.val


----------------------------------------------------------------------------
(* The pipeline: the claims *)

Keys(r) == DOMAIN r.v

\* the value the response text of a stage decodes to
DecodedVision == json_loads(clean_response(ran["perception"].reply.text))
DecodedEvaluation ==
    json_loads(clean_evaluation_response(ran["evaluation"].reply.text))
DecodedFeedback ==
    json_loads(clean_feedback_response(ran["feedback"].reply.text))

\* overall_score is the score of the violations of the same result
ScoreIsDerived(r) ==
    /\ r.t = "obj"
    /\ "overall_score" \in Keys(r)
    /\ r.v["overall_score"].t = "num"
    /\ calculate_score(Get(r, "violations", EmptyList))
         = Returned(r.v["overall_score"].v)

\* total_feedback_items is the length of the feedback_items of the same result
CountIsDerived(r) ==
    /\ r.t = "obj"
    /\ "total_feedback_items" \in Keys(r)
    /\ LET n == PyLen(Get(r, "feedback_items", EmptyList)) IN
       /\ n.exc = ""
       /\ r.v["total_feedback_items"] = JNum(100 * n.val)

\* C5 as stated: in every result evaluate returns, overall_score is the score
\* of that result's violations.
C5_ScoreDerivedInEveryResult ==
    evaluation_result # Unset => ScoreIsDerived(evaluation_result)

\* C5 as the code has it: in every result evaluate returns other than the
\* {error} result of its except clause, overall_score is the score of that
\* result's violations (of [] when it has none), whatever overall_score the
\* response gave; the {error} result carries no overall_score.
C5_ScoreDerivedUnlessError ==
    evaluation_result # Unset =>
        IF ran["evaluation"].path = "error"
        THEN "overall_score" \notin Keys(evaluation_result)
        ELSE ScoreIsDerived(evaluation_result)

C5_Witness ==
    /\ evaluation_result # Unset
    /\ ran["evaluation"].path = "ok"
    /\ Get(DecodedEvaluation.val, "overall_score", JNull) = JNum(0)
    /\ Len(Get(evaluation_result, "violations", EmptyList).v) = 3
    /\ Get(evaluation_result, "overall_score", JNull) = JNum(870)

\* C6 as stated: in every result generate_feedback returns,
\* total_feedback_items is the length of that result's feedback_items.
C6_CountDerivedInEveryResult ==
    feedback_result # Unset => CountIsDerived(feedback_result)

\* C6 as the code has it: in every result generate_feedback returns other than
\* the {error} result of its except clause, total_feedback_items is the length
\* of that result's feedback_items (0 when it has none), whatever count the
\* response gave; the {error} result carries no total_feedback_items.
C6_CountDerivedUnlessError ==
    feedback_result # Unset =>
        IF ran["feedback"].path = "error"
        THEN "total_feedback_items" \notin Keys(feedback_result)
        ELSE CountIsDerived(feedback_result)

C6_Witness ==
    /\ feedback_result # Unset
    /\ ran["feedback"].path = "ok"
    /\ Get(DecodedFeedback.val, "total_feedback_items", JNull) = JNum(0)
    /\ Get(DecodedFeedback.val, "platform", JNull) = JStr("web")
    /\ Len(Get(feedback_result, "feedback_items", EmptyList).v) = 2
    /\ Get(feedback_result, "total_feedback_items", JNull) = JNum(200)


\* the two fallback shapes of a stage result
IsErrorShape(r) == r.t = "obj" /\ Keys(r) = {"error"}
IsParseErrorShape(r) == r.t = "obj" /\ Keys(r) = {"parse_error", "raw_response"}
\* the result a stage has left
ResultOf(stage) ==
    CASE stage = "perception" -> vision_result
      [] stage = "evaluation" -> evaluation_result
      [] stage = "feedback" -> feedback_result
      [] stage = "regeneration" -> wireframe_result

\* the stage took the given return statement
Took(stage, path) == stage \in DOMAIN ran /\ ran[stage].path = path

\* the external call of the stage was made and raised
CallFailed(stage) ==
    stage \in DOMAIN ran /\ ran[stage].called /\ ran[stage].reply.kind = "raise"

\* C7 as stated: the result of every stage is a structured success result,
\* or {error}, or {parse_error, raw_response}, never a fallback mixed with the
\* substantive fields of the stage.  Whatever a stage returns after a decoded
\* response counts here as its structured success result.
C7_EveryResultIsOneOfThreeShapes ==
    \A stage \in DOMAIN ran :
        CASE ran[stage].path = "error" -> IsErrorShape(ResultOf(stage))
          [] ran[stage].path = "parse_error" -> IsParseErrorShape(ResultOf(stage))
          [] ran[stage].path = "ok" -> TRUE

\* C7 as the code has it: the shape of a result follows the return statement
\* that produced it.  From the except clause it is {error} alone.  From the
\* parse fallback it is {raw_response, parse_error} in the perception stage,
\* with violations and overall_score added in the evaluation stage, and with
\* feedback_items, platform and total_feedback_items added in the feedback
\* stage.  After a decoded response it is the decoded value, with the derived
\* fields of the stage added; the regeneration stage returns its four fields.
C7_ShapeFollowsReturnPath ==
    /\ \A stage \in DOMAIN ran :
         ran[stage].path = "error" => IsErrorShape(ResultOf(stage))
    /\ Took("perception", "parse_error") =>
         Keys(vision_result) = {"raw_response", "parse_error"}
    /\ Took("evaluation", "parse_error") =>
         Keys(evaluation_result)
           = {"raw_response", "parse_error", "violations", "overall_score"}
    /\ Took("feedback", "parse_error") =>
         Keys(feedback_result)
           = {"raw_response", "parse_error", "feedback_items", "platform",
              "total_feedback_items"}
    /\ Took("perception", "ok") => vision_result = DecodedVision.val
    /\ Took("evaluation", "ok") =>
         Keys(evaluation_result) = Keys(DecodedEvaluation.val) \cup {"overall_score"}
    /\ Took("feedback", "ok") =>
         Keys(feedback_result)
           = Keys(DecodedFeedback.val) \cup {"platform", "total_feedback_items"}
    /\ Took("regeneration", "ok") =>
         Keys(wireframe_result)
           = {"wireframe_html", "complete_html", "output_path", "timestamp"}

C7_Witness ==
    /\ Took("perception", "ok")
    /\ Took("evaluation", "parse_error")
    /\ "parse_error" \in Keys(evaluation_result)
    /\ "overall_score" \in Keys(evaluation_result)
    /\ Took("feedback", "parse_error")
    /\ "parse_error" \in Keys(feedback_result)
    /\ "total_feedback_items" \in Keys(feedback_result)
    /\ Took("regeneration", "ok")

\* C8: analyze_screenshot returns a mapping: {error} when reading the image
\* or the call fails, {raw_response, parse_error} with the unmodified response
\* text when the text does not decode to a JSON object, and the decoded
\* object otherwise.
C8_AlwaysReturnsAMapping ==
    vision_result # Unset =>
        LET p == ran["perception"] IN
        /\ vision_result.t = "obj"
        /\ (~p.called \/ p.reply.kind = "raise") => IsErrorShape(vision_result)
        /\ (p.called /\ p.reply.kind = "text") =>
             IF DecodedVision.exc = "" /\ DecodedVision.val.t = "obj"
             THEN vision_result = DecodedVision.val
             ELSE /\ Keys(vision_result) = {"raw_response", "parse_error"}
                  /\ vision_result.v["raw_response"] = JText(p.reply.text)

\* C9 as stated: when the call fails or the response does not parse, the
\* result of evaluate has violations = [] and overall_score = 10.0.
C9_FailureScoresTen ==
    (CallFailed("evaluation") \/ Took("evaluation", "parse_error")) =>
        /\ Get(evaluation_result, "violations", JNull) = EmptyList
        /\ Get(evaluation_result, "overall_score", JNull) = JNum(1000)

\* C9 as the code has it: when the response does not parse, the result of
\* evaluate is {raw_response, parse_error, violations: [], overall_score: 10.0}
\* with the unmodified response text; when the call fails, or anything else
\* raises, the result is {error} alone, with no violations and no score.
C9_UnparseableScoresTenAndFailureIsError ==
    /\ Took("evaluation", "parse_error") =>
         /\ Keys(evaluation_result)
              = {"raw_response", "parse_error", "violations", "overall_score"}
         /\ evaluation_result.v["raw_response"] = JText(ran["evaluation"].reply.text)
         /\ evaluation_result.v["violations"] = EmptyList
         /\ evaluation_result.v["overall_score"] = JNum(1000)
    /\ Took("evaluation", "error") =>
         /\ IsErrorShape(evaluation_result)
         /\ "violations" \notin Keys(evaluation_result)
         /\ "overall_score" \notin Keys(evaluation_result)

C9_Witness ==
    /\ Took("evaluation", "parse_error")
    /\ ran["evaluation"].reply.text = <<"{">>
    /\ Get(evaluation_result, "overall_score", JNull) = JNum(1000)


----------------------------------------------------------------------------
(* Fence stripping: the claims *)

\* a is a contiguous part of b
IsSubstring(a, b) ==
    \E i \in 0..(Len(b) - Len(a)) : SubSeq(b, i + 1, i + Len(a)) = a

\* a fence is left at the start or at the end of the text
FenceRemains(text) == StartsWith(text, Fence) \/ EndsWith(text, Fence)

\* C11 as stated: for every response text the stripping step applied to its
\* own output returns that output unchanged, and the stripped text is a
\* contiguous substring of the input.
C11_StrippingIsIdempotent ==
    cleanedTwice # Pending =>
        /\ cleanedTwice.val = cleanedOnce.val
        /\ IsSubstring(cleanedOnce.val, response_text)

\* C11 as the code has it: the stripped text is a contiguous substring of the
\* input, and a second application returns it unchanged exactly when the first
\* left no fence at its start or end; a text with a fence inside a fence is
\* stripped further by the second application.
C11_StrippingIsATrimIdempotentUnlessNested ==
    /\ cleanedOnce # Pending => IsSubstring(cleanedOnce.val, response_text)
    /\ cleanedTwice # Pending =>
         /\ IsSubstring(cleanedTwice.val, cleanedOnce.val)
         /\ (cleanedTwice.val = cleanedOnce.val) <=> ~FenceRemains(cleanedOnce.val)

C11_Witness ==
    /\ cleanedTwice # Pending
    /\ parts.open = FenceJson
    /\ parts.close = Fence
    /\ parts.lead # <<>>
    /\ parts.body \in ObjectBodies
    /\ Len(parts.body) > 2
    /\ cleanedOnce.val = parts.body
    /\ cleanedTwice.val = parts.body


----------------------------------------------------------------------------
(* The developer report: the claims *)

\* the lines of the returned report that have one of the kinds
LinesOf(kinds) ==
    LET Has(l) == l.kind \in kinds IN SelectSeq(report.val, Has)

KindsOf(lines) == [i \in 1..Len(lines) |-> lines[i].kind]

ReportReturned == report # Pending /\ report.exc = ""

\* the top-level fields the report reads, with the defaults of the code
InputItems == Get(report_input, "feedback_items", EmptyList)
InputQuickWins == Get(report_input, "quick_wins", EmptyList)
InputSummary == Get(report_input, "summary", EmptyDict)
InputInstructions == Get(report_input, "wireframe_instructions", EmptyDict)

\* the documented order of the buckets
BucketOrder == <<"critical", "high", "medium", "low">>

\* the items of the input that have the priority, in their input order
ItemsWith(priority) ==
    LET Has(item) == Get(item, "priority", JNull) = JStr(priority) IN
    SelectSeq(InputItems.v, Has)

\* the items of the four buckets, bucket after bucket
BucketedItems ==
    ItemsWith(BucketOrder[1]) \o ItemsWith(BucketOrder[2])
    \o ItemsWith(BucketOrder[3]) \o ItemsWith(BucketOrder[4])

\* what a bucket is expected to show: its heading with its count and the
\* titles of its items, or nothing when it has no item
ExpectedBucket(priority) ==
    LET its == ItemsWith(priority) IN
    IF its = <<>> THEN <<>>
    ELSE <<Line("bucket", JStr(Upper[priority]), JNum(100 * Len(its)))>>
         \o [i \in 1..Len(its) |->
               Line("item_title", Get(its[i], "id", JStr("?")),
                    Get(its[i], "title", JStr("Unknown")))]

\* C12: the report has its sections in the order title, summary counts,
\* quick wins, detailed feedback, visual design changes; the quick wins
\* section is there exactly when quick_wins is non-empty; every feedback
\* result whose values have their types gets a report.
C12_SectionsInFixedOrder ==
    /\ (report # Pending /\ report_input \in WellTypedResults) => report.exc = ""
    /\ ReportReturned =>
         /\ KindsOf(LinesOf({"title", "summary", "quick_wins", "detailed", "visual"}))
              = <<"title", "summary">>
                \o (IF Falsy(InputQuickWins) THEN <<>> ELSE <<"quick_wins">>)
                \o <<"detailed">>
                \o (IF Falsy(InputInstructions) THEN <<>> ELSE <<"visual">>)
         /\ KindsOf(SubSeq(report.val, 1, 8))
              = <<"title", "summary", "total_issues", "critical", "high",
                  "medium", "low", "estimated_total_time">>
         /\ (LinesOf({"quick_wins"}) # <<>>) <=> ~Falsy(InputQuickWins)

C12_Witness ==
    /\ ReportReturned
    /\ KindsOf(LinesOf({"title", "summary", "quick_wins", "detailed", "visual"}))
         = <<"title", "summary", "quick_wins", "detailed", "visual">>
    /\ Len(LinesOf({"item_title"})) = 2
    /\ Len(LinesOf({"win_change"})) = 2

\* C13: the buckets appear in the order critical, high, medium, low; a bucket
\* is rendered exactly when an item has its priority, with the count of those
\* items; inside a bucket the items keep their order from feedback_items.
C13_BucketsInFixedOrder ==
    ReportReturned =>
        /\ LinesOf({"bucket", "item_title"})
             = ExpectedBucket(BucketOrder[1]) \o ExpectedBucket(BucketOrder[2])
               \o ExpectedBucket(BucketOrder[3]) \o ExpectedBucket(BucketOrder[4])
        /\ \A k \in 1..4 :
             (\E i \in 1..Len(report.val) :
                  report.val[i].kind = "bucket"
                  /\ report.val[i].a = JStr(Upper[BucketOrder[k]]))
             <=> ItemsWith(BucketOrder[k]) # <<>>

C13_Witness ==
    /\ ReportReturned
    /\ InputItems.t = "arr"
    /\ Len(InputItems.v) = 3
    /\ Get(InputItems.v[1], "priority", JNull) = JStr("low")
    /\ Get(InputItems.v[2], "priority", JNull) = JStr("critical")
    /\ Get(InputItems.v[3], "priority", JNull) = JStr("low")
    /\ "id" \in DOMAIN InputItems.v[1].v
    /\ LinesOf({"bucket", "item_title"})
         = << Line("bucket", JStr("CRITICAL"), JNum(100)),
              Line("item_title", JNum(200), JStr("x")),
              Line("bucket", JStr("LOW"), JNum(200)),
              Line("item_title", JNum(100), JStr("x")),
              Line("item_title", JNum(300), JStr("x")) >>


\* the items whose priority is one of the four or is missing
ItemsToShow ==
    LET Has(item) ==
            \/ "priority" \notin DOMAIN item.v
            \/ \E k \in 1..4 : item.v["priority"] = JStr(BucketOrder[k])
    IN  SelectSeq(InputItems.v, Has)

\* the lines of one kind are those of the shown items, one each, with the
\* default where an item has no such field
ItemFieldShown(kind, items, default) ==
    LinesOf({kind}) = [i \in 1..Len(items) |-> Line(kind, Get(items[i], kind, default), JNull)]

\* the summary lines show the fields of the summary, 0 or Unknown for a
\* missing one
SummaryShown ==
    SubSeq(report.val, 3, 8)
      = << Line("total_issues", Get(InputSummary, "total_issues", JNum(0)), JNull),
           Line("critical", Get(InputSummary, "critical", JNum(0)), JNull),
           Line("high", Get(InputSummary, "high", JNum(0)), JNull),
           Line("medium", Get(InputSummary, "medium", JNum(0)), JNull),
           Line("low", Get(InputSummary, "low", JNum(0)), JNull),
           Line("estimated_total_time",
                Get(InputSummary, "estimated_total_time", JStr("Unknown")), JNull) >>

EmptySummary ==
    << Heading("title"), Heading("summary"),
       Line("total_issues", JNum(0), JNull), Line("critical", JNum(0), JNull),
       Line("high", JNum(0), JNull), Line("medium", JNum(0), JNull),
       Line("low", JNum(0), JNull),
       Line("estimated_total_time", JStr("Unknown"), JNull) >>

\* C15 as stated: for {} the report is returned, its summary counts are all
\* zero and it has no detailed feedback section.
C15_EmptyResultHasNoDetailedSection ==
    (report # Pending /\ report_input = EmptyDict) =>
        /\ report.exc = ""
        /\ SubSeq(report.val, 1, 8) = EmptySummary
        /\ LinesOf({"detailed"}) = <<>>

\* C15 as the code has it: for {} the report is returned, its summary counts
\* are all zero, and it ends with the heading of the detailed feedback
\* section, under which there is no bucket and no item.
C15_EmptyResultHasEmptyDetailedSection ==
    (report # Pending /\ report_input = EmptyDict) =>
        report = Returned(EmptySummary \o <<Heading("detailed")>>)

C15_Witness ==
    /\ report_input = EmptyDict
    /\ ReportReturned
    /\ Len(report.val) = 9
    /\ report.val[9].kind = "detailed"


----------------------------------------------------------------------------
(* HTML extraction: the claims *)

\* the text begins with a document root the code recognises
HasDocumentRoot(text) ==
    StartsWith(text, <<"<!DOCTYPE">>) \/ StartsWith(text, <<"<html">>)

\* C16: for every response text _extract_html returns a text that begins with
\* <!DOCTYPE or <html: an extracted text that begins with one is returned as
\* it is, any other is placed inside the document shell.
C16_OutputBeginsWithDocumentRoot ==
    extracted_html # Pending =>
        /\ extracted_html.exc = ""
        /\ HasDocumentRoot(extracted_html.val)
        /\ LET extracted == extract_fenced(response_text) IN
           extracted_html.val = IF HasDocumentRoot(extracted) THEN extracted
                           ELSE HtmlShellHead \o extracted \o HtmlShellTail

C16_Witness ==
    /\ extracted_html # Pending
    /\ parts.open = FenceHtml
    /\ parts.close = Fence
    /\ parts.pre # <<>>
    /\ extracted_html.val = HtmlShellHead \o <<"<!doctype", " ", "html>", "<div>">>
                       \o HtmlShellTail


----------------------------------------------------------------------------
(* Regeneration runs: the claims *)

\* the runs that wrote their viewer document
SavedRuns == {i \in 1..Len(runs) : runs[i].saved}

RunPath(i) == runs[i].result.v["output_path"]

\* C17: every successful generate_wireframe call writes its viewer document
\* to a path no earlier run wrote to, so the document of every successful
\* run is still in its file afterwards.
C17_EveryRunWritesADistinctPath ==
    /\ \A i, j \in SavedRuns : i < j => RunPath(i) # RunPath(j)
    /\ \A i \in SavedRuns :
         /\ RunPath(i) \in DOMAIN files
         /\ files[RunPath(i)] = runs[i].result.v["complete_html"]



----------------------------------------------------------------------------
(* The pipeline: order of the stages *)

StageOrder == <<"perception", "evaluation", "feedback", "regeneration">>

\* the statements of test_complete_pipeline that come after n stage calls
PcAfter(n) ==
    CASE n = 0 -> {"VisionAgent", "analyze_screenshot", "raised"}
      [] n = 1 -> {"HeuristicAgent", "evaluate", "raised"}
      [] n = 2 -> {"generate_feedback"}
      [] n = 3 -> {"generate_wireframe"}
      [] n = 4 -> {"save_outputs", "done", "raised"}

\* C18: the stages run in the order perception, evaluation, feedback,
\* regeneration, each once; a stage starts only when the one before it has
\* returned, and it receives the values the earlier stages returned:
\* evaluation the perception result, feedback the perception and evaluation
\* results, regeneration the perception and feedback results.
C18_StagesRunOnceInOrderOnEarlierResults ==
    /\ \E n \in 0..4 :
         /\ DOMAIN ran = {StageOrder[i] : i \in 1..n}
         /\ pc \in PcAfter(n)
         /\ \A i \in 1..n :
              /\ ran[StageOrder[i]].nth = i
              /\ ran[StageOrder[i]].times = 1
              /\ ResultOf(StageOrder[i]) = ran[StageOrder[i]].result
         /\ \A i \in (n + 1)..4 : ResultOf(StageOrder[i]) = Unset
    /\ "evaluation" \in DOMAIN ran =>
         ran["evaluation"].args = <<ran["perception"].result>>
    /\ "feedback" \in DOMAIN ran =>
         ran["feedback"].args = <<ran["perception"].result, ran["evaluation"].result>>
    /\ "regeneration" \in DOMAIN ran =>
         ran["regeneration"].args = <<ran["perception"].result, ran["feedback"].result>>

C18_Witness ==
    /\ pc = "save_outputs"
    /\ \A i \in 1..4 : Took(StageOrder[i], "ok")
    /\ evaluation_result # feedback_result
    /\ ran["regeneration"].args = <<vision_result, feedback_result>>


----------------------------------------------------------------------------
(* The pipeline: requests to the external model *)

\* C19: a stage call sends at most one request to the external model.  When
\* the request fails the stage returns {error} with the message of that
\* failure, and when the response cannot be decoded it returns its parse
\* fallback holding that response: it sends no second request.
C19_AtMostOneRequestAndNoRetry ==
    \A stage \in DOMAIN ran :
        /\ ran[stage].calls <= 1
        /\ ran[stage].calls = 1 <=> ran[stage].called
        /\ CallFailed(stage) =>
             /\ ran[stage].calls = 1
             /\ ResultOf(stage) = ErrorResult(ran[stage].reply.exc)
        /\ Took(stage, "parse_error") =>
             /\ ran[stage].calls = 1
             /\ IsParseFallback(ResultOf(stage), ran[stage].reply.text)

C19_Witness ==
    /\ pc = "save_outputs"
    /\ Took("perception", "parse_error")
    /\ CallFailed("evaluation")
    /\ Took("feedback", "parse_error")
    /\ CallFailed("regeneration")
    /\ \A stage \in DOMAIN ran : ran[stage].calls = 1


----------------------------------------------------------------------------
(* The pipeline: failures *)

\* the regeneration stage got to _save_html and the write failed
WriteFailed ==
    /\ "regeneration" \in DOMAIN ran
    /\ Len(runs) = 1
    /\ runs[1].second # 0
    /\ ~runs[1].saved

\* C20: in each of the four stages a failed request to the external model,
\* and in the regeneration stage a failed write of the file, is returned as
\* {error: message} and nothing else; a stage that was called has returned a
\* value to test_complete_pipeline, which goes on to its next statement.
C20_FailureIsReturnedAsErrorOnly ==
    /\ \A stage \in DOMAIN ran :
         /\ CallFailed(stage) =>
              /\ IsErrorShape(ResultOf(stage))
              /\ ResultOf(stage).v["error"] = JStr(ran[stage].reply.exc)
         /\ ResultOf(stage) # Unset
         /\ ResultOf(stage) = ran[stage].result
    /\ WriteFailed =>
         /\ IsErrorShape(wireframe_result)
         /\ wireframe_result.v["error"] = JStr("OSError")
    /\ (pc = "raised" /\ wireframe_result = Unset) =>
         DOMAIN ran \subseteq {"perception"}

C20_Witness ==
    /\ pc = "save_outputs"
    /\ CallFailed("perception")
    /\ CallFailed("evaluation")
    /\ CallFailed("feedback")
    /\ WriteFailed
    /\ wireframe_result = ErrorResult("OSError")
    /\ files # <<>>


----------------------------------------------------------------------------
(* The pipeline: configuration errors *)

\* C21: when test_complete_pipeline ends with a configuration error (the
\* credential or the rubric file is missing), no stage has run and no request
\* has been sent to the external model.
C21_ConfigErrorBeforeAnyStage ==
    (pc = "raised" /\ "regeneration" \notin DOMAIN ran) =>
        /\ DOMAIN ran = {}
        /\ vision_result = Unset


----------------------------------------------------------------------------
(* The pipeline: fallback results as inputs *)

\* the stage has run and returned from its except clause or its parse fallback
GaveFallback(stage) ==
    stage \in DOMAIN ran /\ ran[stage].path \in {"error", "parse_error"}

\* the prompt the evaluation stage builds from a description with no components
EmptyEvaluationPrompt ==
    [screen_type |-> JStr("unknown"), n_components |-> 0, components |-> EmptyList,
     color_scheme |-> EmptyDict, spacing |-> EmptyDict,
     accessibility_obs |-> EmptyList]

EmptyFeedbackPrompt ==
    [platform |-> DefaultPlatform, screen_type |-> JStr("unknown"),
     n_components |-> 0, violations |-> EmptyList, mobile_issues |-> EmptyList]

EmptyWireframePrompt ==
    [screen_type |-> JStr("mobile app"), components |-> EmptyList,
     color_scheme |-> EmptyDict, feedback_items |-> EmptyList,
     wireframe_instructions |-> EmptyDict]

\* C22: an {error} result and a {raw_response, parse_error} result of the
\* perception stage pass through the prompt builder of the evaluation stage
\* without raising, and the prompt is the one built for no components and no
\* observations; the same holds for the prompt builders of the feedback and
\* regeneration stages when the results they are given are fallbacks.
C22_FallbackInputsBuildTheEmptyPrompt ==
    /\ ("evaluation" \in DOMAIN ran /\ GaveFallback("perception")) =>
         /\ create_evaluation_prompt(ran["evaluation"].args[1])
              = Returned(EmptyEvaluationPrompt)
         /\ ran["evaluation"].called
    /\ ("feedback" \in DOMAIN ran /\ GaveFallback("perception")
          /\ GaveFallback("evaluation")) =>
         /\ create_feedback_prompt(ran["feedback"].args[1], ran["feedback"].args[2],
                                   DefaultPlatform)
              = Returned(EmptyFeedbackPrompt)
         /\ ran["feedback"].called
    /\ ("regeneration" \in DOMAIN ran /\ GaveFallback("perception")
          /\ GaveFallback("feedback")) =>
         /\ create_wireframe_prompt(ran["regeneration"].args[1],
                                    ran["regeneration"].args[2])
              = Returned(EmptyWireframePrompt)
         /\ ran["regeneration"].called

C22_Witness ==
    /\ pc = "save_outputs"
    /\ Took("perception", "parse_error")
    /\ Took("evaluation", "parse_error")
    /\ Took("feedback", "error")
    /\ ran["regeneration"].called
    /\ ran["evaluation"].args = <<vision_result>>


----------------------------------------------------------------------------
(* HTML extraction and the prefix/suffix rule *)

\* the rule of the JSON parse routines, with html as the tag of the fence:
\* trim, drop one leading fence, drop one trailing fence, trim
PrefixSuffixRule(text) ==
    LET stripped == Strip(text)
        opened == IF StartsWith(stripped, FenceHtml) THEN DropFirst(stripped, 7)
                  ELSE IF StartsWith(stripped, Fence) THEN DropFirst(stripped, 3)
                  ELSE stripped
        closed == IF EndsWith(opened, Fence) THEN DropLast(opened, 3) ELSE opened
    IN  Strip(closed)

\* the trimmed text has no fence at all
NoFence(text) == Find(Strip(text), Fence, 0) = -1

\* the trimmed text begins with a fence, ends with a fence, and has no fence
\* between the two
WellFenced(text) ==
    LET stripped == Strip(text)
        start == IF StartsWith(stripped, FenceHtml) THEN 7 ELSE 3
    IN  /\ StartsWith(stripped, Fence)
        /\ Find(stripped, Fence, start) >= 0
        /\ Find(stripped, Fence, start) = Len(stripped) - 3

\* C23 as stated: for every response text, the text _extract_html has before
\* it wraps is the text the prefix/suffix rule gives.
C23_ExtractionIsPrefixSuffixRule ==
    extracted_html # Pending =>
        extract_fenced(response_text) = PrefixSuffixRule(response_text)

\* C23 as the code has it: _extract_html searches for the fences.  It gives
\* the text of the prefix/suffix rule when the trimmed response has no fence,
\* or begins with a fence and ends with the only other fence.
C23_ExtractionIsPrefixSuffixRuleWhenWellFenced ==
    (extracted_html # Pending /\ (NoFence(response_text) \/ WellFenced(response_text))) =>
        extract_fenced(response_text) = PrefixSuffixRule(response_text)

C23_Witness ==
    /\ extracted_html # Pending
    /\ WellFenced(response_text)
    /\ parts.open = FenceHtml
    /\ parts.in1 # <<>>
    /\ parts.body = <<"<div>">>
    /\ extract_fenced(response_text) = <<"<div>">>
    /\ extracted_html.val = HtmlShellHead \o <<"<div>">> \o HtmlShellTail


----------------------------------------------------------------------------
(* The developer report: the visual design changes *)

Subsections ==
    {"overall_changes", "priority_fixes", "layout_modifications",
     "color_adjustments", "typography_changes"}

\* the report has lines for the subsection
Rendered(key) == LinesOf({key}) # <<>>

\* C24: the visual design changes of the report show each subsection of
\* wireframe_instructions (overall_changes, priority_fixes,
\* layout_modifications, color_adjustments, typography_changes) exactly when
\* it is not empty.
C24_EachSubsectionRenderedWhenNonEmpty ==
    (ReportReturned /\ InputInstructions.t = "obj") =>
        \A key \in Subsections :
            Rendered(key) <=> ~Falsy(Get(InputInstructions, key, EmptyList))


\* C24 as the code has it: the section shows overall_changes, priority_fixes,
\* color_adjustments and typography_changes, each exactly when it is not
\* empty, under a heading that is there exactly when wireframe_instructions is
\* not empty; layout_modifications is never shown.
C24_FourSubsectionsRenderedWhenNonEmpty ==
    (ReportReturned /\ InputInstructions.t = "obj") =>
        /\ \A key \in Subsections \ {"layout_modifications"} :
             Rendered(key) <=> ~Falsy(Get(InputInstructions, key, EmptyList))
        /\ ~Rendered("layout_modifications")
        /\ Rendered("visual") <=> ~Falsy(InputInstructions)

C24_Witness ==
    /\ ReportReturned
    /\ ~Falsy(Get(InputInstructions, "layout_modifications", EmptyList))
    /\ Rendered("overall_changes")
    /\ Rendered("typography_changes")
    /\ ~Rendered("color_adjustments")
    /\ ~Rendered("priority_fixes")
    /\ KindsOf(LinesOf({"visual"} \cup Subsections))
         = <<"visual", "overall_changes", "typography_changes">>


----------------------------------------------------------------------------
(* The pipeline: what a stage leaves alone *)

\* a step leaves the result of the stage as it was, once the stage has run
Kept(stage) ==
    stage \in DOMAIN ran =>
        /\ stage \in DOMAIN ran'
        /\ ran'[stage].result = ran[stage].result
        /\ ran'[stage].args = ran[stage].args

\* C25: no stage and no report rendering changes what it is given or what
\* is shared: the rubric and the credential stay as loaded, and the UI
\* description, the evaluation result and the feedback result are, after
\* every later call, the values their stages returned.
C25_StagesLeaveInputsUnchanged ==
    [][ /\ config' = config
        /\ vision_result # Unset => vision_result' = vision_result
        /\ evaluation_result # Unset => evaluation_result' = evaluation_result
        /\ feedback_result # Unset => feedback_result' = feedback_result
        /\ wireframe_result # Unset => wireframe_result' = wireframe_result
        /\ \A stage \in {"perception", "evaluation", "feedback", "regeneration"} :
             Kept(stage) ]_vars

C25_Witness ==
    /\ pc = "done"
    /\ report.exc = ""
    /\ config.rubric = "ok"
    /\ vision_result = ran["perception"].result
    /\ evaluation_result = ran["evaluation"].result
    /\ feedback_result = ran["feedback"].result
    /\ report_input = feedback_result
    /\ Len(Get(feedback_result, "feedback_items", EmptyList).v) = 2
    /\ Took("regeneration", "ok")


----------------------------------------------------------------------------
(* The evaluation report: the claims *)

\* the violations of the result the report was made from
InputViolations == Get(report_input, "violations", EmptyList)

\* C26: for every evaluation result, the {error} result and the parse
\* fallback included, the score generate_report shows is the score of the
\* violations of that result, no violations giving 10.0.
C26_ReportShowsScoreOfViolations ==
    (ReportReturned /\ calculate_score(InputViolations).exc = "") =>
        /\ Len(LinesOf({"score"})) = 1
        /\ LinesOf({"score"})[1].a = JNum(calculate_score(InputViolations).val)


----------------------------------------------------------------------------
(* HTML extraction: the content between the fences *)

\* where the text after the opening fence begins in the trimmed response:
\* after the first html fence, or else after the first fence; -1 without one
AfterOpeningFence(stripped) ==
    IF Find(stripped, FenceHtml, 0) >= 0 THEN Find(stripped, FenceHtml, 0) + 7
    ELSE IF Find(stripped, Fence, 0) >= 0 THEN Find(stripped, Fence, 0) + 3
    ELSE -1

\* C27: _extract_html loses no content: with an opening and a closing fence
\* the extracted text is the trimmed text between them, and with an opening
\* fence and no closing fence it is all of the trimmed text after the opening
\* fence.
C27_ExtractionLosesNoContent ==
    LET stripped == Strip(response_text)
        start == AfterOpeningFence(stripped)
        end == Find(stripped, Fence, start)
    IN  (extracted_html # Pending /\ start >= 0) =>
            extract_fenced(response_text)
              = IF end >= 0 THEN Strip(SubSeq(stripped, start + 1, end))
                ELSE Strip(SubSeq(stripped, start + 1, Len(stripped)))


\* C28: every violation is listed once in the evaluation report, under the
\* group of its severity, so the violations listed are as many as the result
\* has and as many as the VIOLATIONS FOUND header says; the developer report
\* does the same with the feedback items and their priorities.
C28_EveryViolationIsListedOnce ==
    (ReportReturned /\ InputViolations.t = "arr") =>
        /\ Len(LinesOf({"violation"})) = Len(InputViolations.v)
        /\ \A i \in 1..Len(LinesOf({"violations_found"})) :
             LinesOf({"violations_found"})[i].a
               = JNum(100 * Len(LinesOf({"violation"})))


----------------------------------------------------------------------------
(* The pipeline: going on after a fallback *)

OutputNames ==
    {"1_vision_analysis.json", "2_heuristic_evaluation.json", "3_feedback.json",
     "4_wireframe_metadata.json", "DEVELOPER_FEEDBACK.md"}

\* the script raised after its four stages, while saving the outputs
RaisedWhileSaving == pc = "raised" /\ "regeneration" \in DOMAIN ran

\* C29: whatever an earlier stage returned, {error}, a parse fallback or a
\* decoded result, every later stage that is invoked sends its request to the
\* external model, and the script does not raise once its agents are built:
\* it goes on to write all its output files.
C29_EveryLaterStageCallsAndOutputsAreSaved ==
    /\ \A stage \in DOMAIN ran \ {"perception"} : ran[stage].called
    /\ ~RaisedWhileSaving
    /\ pc = "done" => \A name \in OutputNames : OutputFile(name) \in DOMAIN files


\* C29 as the code has it: a fallback result does not end the run.  Once the
\* agents are built all four stages are invoked whatever the earlier ones
\* returned; a stage whose inputs are fallbacks sends its request; and when
\* the feedback result is a fallback the report is rendered and all output
\* files are written.  A decoded result with a field of the wrong type can
\* make a later stage return {error} without a request, or the report raise.
C29_FallbackDoesNotShortCircuit ==
    /\ pc \in {"save_outputs", "done"} \/ RaisedWhileSaving =>
         DOMAIN ran = {"perception", "evaluation", "feedback", "regeneration"}
    /\ pc = "raised" =>
         \/ RaisedWhileSaving
         \/ ~config.api_key /\ DOMAIN ran = {}
         \/ config.rubric = "missing" /\ DOMAIN ran = {"perception"}
    /\ ("evaluation" \in DOMAIN ran /\ GaveFallback("perception")) =>
         ran["evaluation"].calls = 1
    /\ ("feedback" \in DOMAIN ran /\ GaveFallback("perception")
          /\ GaveFallback("evaluation")) =>
         ran["feedback"].calls = 1
    /\ ("regeneration" \in DOMAIN ran /\ GaveFallback("perception")
          /\ GaveFallback("feedback")) =>
         ran["regeneration"].calls = 1
    /\ GaveFallback("feedback") => ~RaisedWhileSaving
    /\ pc = "done" => OutputNames = {path.v[2] : path \in {f \in DOMAIN files : Len(f.v) = 2}}

C29_Witness ==
    /\ pc = "done"
    /\ Took("perception", "error")
    /\ Took("evaluation", "parse_error")
    /\ Took("feedback", "error")
    /\ Took("regeneration", "ok")
    /\ \A stage \in {"evaluation", "feedback", "regeneration"} : ran[stage].calls = 1
    /\ OutputFile("DEVELOPER_FEEDBACK.md") \in DOMAIN files
    /\ files[OutputFile("3_feedback.json")] = feedback_result


----------------------------------------------------------------------------
(* The pipeline: ill-typed response content *)

\* a list whose members are all mappings
SequenceOfMappings(x) == x.t = "arr" /\ \A i \in 1..Len(x.v) : x.v[i].t = "obj"

\* the result is {error: message} and nothing else
IsErrorOnly(r) == r.t = "obj" /\ DOMAIN r.v = {"error"}

\* the stage sent its request and the response text decoded to `decoded`
Answered(stage, decoded) ==
    /\ stage \in DOMAIN ran
    /\ ran[stage].called
    /\ ran[stage].reply.kind = "text"
    /\ decoded.exc = ""

\* the decoded value is not an object, or its field is there and is not a
\* sequence of mappings
IllTyped(value, field) ==
    \/ value.t # "obj"
    \/ field \in DOMAIN value.v /\ ~SequenceOfMappings(value.v[field])

\* C30: evaluate and generate_feedback always return a mapping, and a response
\* that decodes to something that is not an object, or whose violations /
\* feedback_items field is not a sequence of mappings, comes back as {error}.
C30_IllTypedResponsesAreDowngraded ==
    /\ \A stage \in {"evaluation", "feedback"} \cap DOMAIN ran :
           ran[stage].result.t = "obj"
    /\ (Answered("evaluation", DecodedEvaluation)
          /\ IllTyped(DecodedEvaluation.val, "violations")) =>
         IsErrorOnly(ran["evaluation"].result)
    /\ (Answered("feedback", DecodedFeedback)
          /\ IllTyped(DecodedFeedback.val, "feedback_items")) =>
         IsErrorOnly(ran["feedback"].result)

\* C30 as the code has it: both stages always return a mapping, and a decoded
\* value that is not an object comes back as {error}.  A violations field
\* comes back as {error} when it is truthy and not a list of mappings; a
\* falsy one (null, 0, "", {}) is kept and scored 10.  A feedback_items field
\* comes back as {error} only when it has no length (a number, null); one
\* that has a length is kept and counted.
C30_OnlyRaisingContentIsDowngraded ==
    /\ \A stage \in {"evaluation", "feedback"} \cap DOMAIN ran :
           ran[stage].result.t = "obj"
    /\ Answered("evaluation", DecodedEvaluation) =>
         LET value == DecodedEvaluation.val
             result == ran["evaluation"].result
         IN  /\ value.t # "obj" => IsErrorOnly(result)
             /\ (value.t = "obj" /\ "violations" \in DOMAIN value.v) =>
                  LET field == value.v["violations"] IN
                  /\ (~Falsy(field) /\ ~SequenceOfMappings(field)) =>
                       IsErrorOnly(result)
                  /\ Falsy(field) =>
                       /\ Get(result, "violations", Unset) = field
                       /\ Get(result, "overall_score", Unset) = JNum(1000)
    /\ Answered("feedback", DecodedFeedback) =>
         LET value == DecodedFeedback.val
             result == ran["feedback"].result
         IN  /\ value.t # "obj" => IsErrorOnly(result)
             /\ (value.t = "obj" /\ "feedback_items" \in DOMAIN value.v) =>
                  LET field == value.v["feedback_items"] IN
                  IF PyLen(field).exc # "" THEN IsErrorOnly(result)
                  ELSE /\ Get(result, "feedback_items", Unset) = field
                       /\ Get(result, "total_feedback_items", Unset)
                            = JNum(100 * PyLen(field).val)

C30_Witness ==
    /\ Answered("evaluation", DecodedEvaluation)
    /\ DecodedEvaluation.val = JObj("violations" :> JNum(700))
    /\ IsErrorOnly(evaluation_result)
    /\ Answered("feedback", DecodedFeedback)
    /\ DecodedFeedback.val = JObj("feedback_items" :> JObj("x" :> JNum(700)))
    /\ Get(feedback_result, "total_feedback_items", Unset) = JNum(100)

====
